---- MODULE Spec2Model ----
(***************************************************************************)
(* A model of React-Context-MCP's ReactSession: the introspection hook     *)
(* that hookBootstrap installs in the inspected page, the session's        *)
(* installation procedure and public operations, the accessibility         *)
(* snapshot builder and the bounded fiber walks of the snapshot tools.     *)
(***************************************************************************)
EXTENDS Integers, Sequences, FiniteSets, TLC

(***************************************************************************)
(* Bounds of the model.                                                    *)
(***************************************************************************)
MaxInstalls == 2
MaxInjects == 2
MaxCommits == 2

\* the renderer (internals) object a framework instance registers: every
\* inject is by a new instance; 0 is one a foreign hook already held
PresetRenderer == 0
NewRenderer(n) == n + 1
Roots == {"f1", "f2"}

\* accessibility snapshots
MaxAxNodes == 3
MaxChildIds == 2

MaxBackReferring == 1

\* the fiber graph under the element looked up
MaxChain == 22
MaxAuthored == 12

MaxVaried == 2

MaxHostsAbove == 1

VARIABLES
  hook,        \* globalThis.__REACT_DEVTOOLS_GLOBAL_HOOK__ of the current page
  hist,        \* history of the page: what was registered, committed, observed
  axNodes,     \* the flat node list Accessibility.getFullAXTree returns
  snapshot,    \* what the last takeSnapshot returned
  fibers,      \* the fiber graph: tag and return pointer of each fiber
  walkResult,  \* what the last get_react_component_from_snapshot returned
  sess,        \* the ReactSession: its fields and the operation in progress
  heap,        \* the objects of a props or state value, by identity
  serResult,   \* what the last safeSerialize call produced
  tree,        \* the fiber trees of the page: child and sibling pointers, roots
  mapResult,   \* what the page function of the last getComponentMap returned
  listing,     \* what each listRoots call on the page returned, in call order
  naming,    \* the fiber handed to getComponentName and the name each copy gave
  inst       \* ensureBackendInjected as run by callers that overlap on one session

hookVars == <<hook, hist>>

snapVars == <<axNodes, snapshot>>

walkVars == <<fibers, walkResult>>

serVars == <<heap, serResult>>

mapVars == <<tree, mapResult>>

listVars == <<listing>>

nameVars == <<naming>>

instVars == <<inst>>

vars == <<hook, hist, axNodes, snapshot, fibers, walkResult, sess, heap, serResult,
          tree, mapResult, listing, naming, inst>>

(***************************************************************************)
(* Maps (JavaScript Map objects) are functions over their key set.         *)
(***************************************************************************)
EmptyMap == [x \in {} |-> 0]

MapSet(m, k, v) == [x \in (DOMAIN m) \cup {k} |-> IF x = k THEN v ELSE m[x]]

MapGet(m, k, dflt) == IF k \in DOMAIN m THEN m[k] ELSE dflt

MapSize(m) == Cardinality(DOMAIN m)

(***************************************************************************)
(* The values the variables hold before anything has happened.             *)
(***************************************************************************)
NoPre == [taken |-> FALSE, foreign |-> FALSE, renderers |-> EmptyMap,
          roots |-> EmptyMap, field |-> EmptyMap]

InitHist ==
  [installs |-> 0, injects |-> 0, commits |-> 0, issued |-> {},
   registered |-> {}, committed |-> {}, lastCommit |-> EmptyMap,
   pre |-> NoPre, last |-> "none", trace |-> <<>>]

NullNode == [isNull |-> TRUE]

NoSnapshot == [taken |-> FALSE]

NoFibers == [tag |-> <<>>, back |-> 0]

NoWalk == [done |-> FALSE]

NoSerialized == [done |-> FALSE]

\* a page in which nothing has rendered: no fibers, no registration
NoTree == [fibers |-> <<>>, roots |-> <<>>, size |-> 0]

NoMap == [done |-> FALSE]

NoListing == <<>>

NoNaming == [done |-> FALSE]

NoRun == [csp |-> 0, init |-> 0, inject |-> 0, reload |-> 0, absent |-> 0, body |-> 0,
          mapEval |-> 0]

NoOutcome == [kind |-> "none", attached |-> FALSE, hookPresent |-> FALSE]

\* new ReactSession(page): #backendInjected = false, nothing in progress
NewSession ==
  [backendInjected |-> FALSE, initScripts |-> 0, pc |-> "idle", op |-> "none",
   verbose |-> FALSE, run |-> NoRun, outcome |-> NoOutcome, calls |-> 0, navs |-> 0]

(***************************************************************************)
(* The hook object.  A page starts without one.  A hook that somebody else *)
(* installed ("existing" in initReactHook) may or may not carry each of    *)
(* the members the bootstrap looks at: renderers, _fiberRoots,             *)
(* getFiberRoots, inject, onCommitFiberRoot.  Its own functions keep their *)
(* roots either in the _fiberRoots member or in a store of their own.      *)
(*   layers    : one entry per run of the bootstrap, the nextId of that    *)
(*               run's closure; layer k's injectBase/onCommitBase is layer *)
(*               k-1's function, layer 1's is the foreign one if any       *)
(*   getRoots  : which getFiberRoots the hook carries                      *)
(***************************************************************************)
NoHook ==
  [present |-> FALSE, hasRenderers |-> FALSE, renderers |-> EmptyMap,
   hasRootsField |-> FALSE, fiberRoots |-> EmptyMap, getRoots |-> "none",
   layers |-> <<>>, fInject |-> FALSE, fCommit |-> FALSE, fRenderers |-> FALSE,
   fPrivate |-> FALSE, fStore |-> EmptyMap, fNextId |-> 1]

ForeignShapes ==
  { s \in [inject : BOOLEAN, commit : BOOLEAN, getRoots : BOOLEAN,
           renderers : BOOLEAN, rootsField : BOOLEAN, preset : 0..2] :
      s.preset # 0 => (s.renderers /\ ~s.inject) }

ForeignHook(s) ==
  [present |-> TRUE, hasRenderers |-> s.renderers,
   renderers |-> IF s.preset = 0 THEN EmptyMap ELSE MapSet(EmptyMap, s.preset, PresetRenderer),
   hasRootsField |-> s.rootsField, fiberRoots |-> EmptyMap,
   getRoots |-> IF s.getRoots THEN "foreign" ELSE "none",
   layers |-> <<>>, fInject |-> s.inject, fCommit |-> s.commit,
   fRenderers |-> s.renderers, fPrivate |-> ~s.rootsField,
   fStore |-> EmptyMap, fNextId |-> 1]

\* what the pre-existing hook's own getFiberRoots(id) reads
ForeignRoots(h, id) ==
  IF h.fPrivate THEN MapGet(h.fStore, id, {}) ELSE MapGet(h.fiberRoots, id, {})

\* hook.getFiberRoots(id); a hook without the function yields no roots
getFiberRoots(h, id) ==
  CASE h.getRoots = "own" -> MapGet(h.fiberRoots, id, {})
    [] h.getRoots = "foreign" -> ForeignRoots(h, id)
    [] OTHER -> {}

\* a bootstrap that starts from fresh maps instead of the existing hook's
initReactHook_fresh(h) ==
  [h EXCEPT !.present = TRUE,
            !.hasRenderers = TRUE, !.renderers = EmptyMap,
            !.hasRootsField = TRUE, !.fiberRoots = EmptyMap,
            !.getRoots = "own",
            !.layers = Append(@, 1)]

(***************************************************************************)
(* initReactHook: one run of the bootstrap against the page's hook.        *)
(***************************************************************************)
initReactHook(h) ==
  LET renderers == IF h.present /\ h.hasRenderers THEN h.renderers ELSE EmptyMap
      fiberRootsMap == IF h.present /\ h.hasRootsField THEN h.fiberRoots ELSE EmptyMap
      nextId == MapSize(renderers) + 1
  IN [h EXCEPT !.present = TRUE,
               !.hasRenderers = TRUE, !.renderers = renderers,
               !.hasRootsField = TRUE, !.fiberRoots = fiberRootsMap,
               !.getRoots = "own",
               !.layers = Append(@, nextId)]

Ev(k, e) == [layer |-> k, ev |-> e]

(***************************************************************************)
(* hook.inject as called on layer k (0 is the foreign function): the       *)
(* resulting hook, the id returned and the order of what happened.         *)
(***************************************************************************)
RECURSIVE inject(_, _, _)
inject(h, k, r) ==
  IF k = 0
  THEN [h |-> [h EXCEPT !.fNextId = @ + 1,
                        !.renderers = IF h.fRenderers THEN MapSet(@, h.fNextId, r) ELSE @],
        id |-> h.fNextId,
        tr |-> <<Ev(0, "run")>>]
  ELSE LET hasBase == k > 1 \/ h.fInject
           base == IF hasBase
                   THEN inject(h, k - 1, r)
                   ELSE [h |-> [h EXCEPT !.layers[k] = @ + 1], id |-> h.layers[k], tr |-> <<>>]
       IN [h |-> [base.h EXCEPT !.renderers = MapSet(@, base.id, r)],
           id |-> base.id,
           tr |-> (IF hasBase THEN <<Ev(k, "call")>> ELSE <<>>) \o base.tr \o <<Ev(k, "book")>>]

\* a commit wrapper that chains to the previous implementation first
RECURSIVE onCommitFiberRoot_chainFirst(_, _, _, _)
onCommitFiberRoot_chainFirst(h, k, id, root) ==
  IF k = 0
  THEN [h |-> IF h.fPrivate
              THEN [h EXCEPT !.fStore = MapSet(@, id, MapGet(@, id, {}) \cup {root})]
              ELSE [h EXCEPT !.fiberRoots = MapSet(@, id, MapGet(@, id, {}) \cup {root})],
        tr |-> <<Ev(0, "run")>>]
  ELSE LET hasBase == k > 1 \/ h.fCommit
           base == IF hasBase
                   THEN onCommitFiberRoot_chainFirst(h, k - 1, id, root)
                   ELSE [h |-> h, tr |-> <<>>]
       IN [h |-> [base.h EXCEPT !.fiberRoots = MapSet(@, id, MapGet(@, id, {}) \cup {root})],
           tr |-> (IF hasBase THEN <<Ev(k, "call")>> ELSE <<>>) \o base.tr \o <<Ev(k, "book")>>]

\* a commit wrapper that replaces the root set of the registration
RECURSIVE onCommitFiberRoot_supersede(_, _, _, _)
onCommitFiberRoot_supersede(h, k, id, root) ==
  IF k = 0
  THEN [h |-> IF h.fPrivate
              THEN [h EXCEPT !.fStore = MapSet(@, id, {root})]
              ELSE [h EXCEPT !.fiberRoots = MapSet(@, id, {root})],
        tr |-> <<Ev(0, "run")>>]
  ELSE LET hasBase == k > 1 \/ h.fCommit
           booked == [h EXCEPT !.fiberRoots = MapSet(@, id, {root})]
           base == IF hasBase
                   THEN onCommitFiberRoot_supersede(booked, k - 1, id, root)
                   ELSE [h |-> booked, tr |-> <<>>]
       IN [h |-> base.h,
           tr |-> <<Ev(k, "book")>> \o (IF hasBase THEN <<Ev(k, "call")>> ELSE <<>>) \o base.tr]

(***************************************************************************)
(* hook.onCommitFiberRoot as called on layer k.                            *)
(***************************************************************************)
RECURSIVE onCommitFiberRoot(_, _, _, _)
onCommitFiberRoot(h, k, id, root) ==
  IF k = 0
  THEN [h |-> IF h.fPrivate
              THEN [h EXCEPT !.fStore = MapSet(@, id, MapGet(@, id, {}) \cup {root})]
              ELSE [h EXCEPT !.fiberRoots = MapSet(@, id, MapGet(@, id, {}) \cup {root})],
        tr |-> <<Ev(0, "run")>>]
  ELSE LET hasBase == k > 1 \/ h.fCommit
           booked == [h EXCEPT !.fiberRoots = MapSet(@, id, MapGet(@, id, {}) \cup {root})]
           base == IF hasBase
                   THEN onCommitFiberRoot(booked, k - 1, id, root)
                   ELSE [h |-> booked, tr |-> <<>>]
       IN [h |-> base.h,
           tr |-> <<Ev(k, "book")>> \o (IF hasBase THEN <<Ev(k, "call")>> ELSE <<>>) \o base.tr]

(***************************************************************************)
(* takeSnapshot: the hierarchy built from the flat accessibility list.     *)
(* A node of the list is [nodeId, ignored, childIds]; a processed node is  *)
(* [nodeId, uid, children], its uid the pair of the snapshot id and the    *)
(* sequence number that `${snapshotId}_${uidCounter++}` joins.             *)
(***************************************************************************)
SnapshotIds == {1700, 1701}

\* nodeMap.get(id): the last node of the list with that nodeId, if any
nodeMapHas(nodes, id) == \E i \in DOMAIN nodes : nodes[i].nodeId = id

nodeMapGet(nodes, id) ==
  nodes[CHOOSE i \in DOMAIN nodes :
          /\ nodes[i].nodeId = id
          /\ \A j \in DOMAIN nodes : nodes[j].nodeId = id => j <= i]

\* childrenMap.get(id): the child ids of the last node with that nodeId that
\* declares any; <<>> stands for undefined
childrenMapGet(nodes, id) ==
  LET decl == { i \in DOMAIN nodes : nodes[i].nodeId = id /\ Len(nodes[i].childIds) > 0 }
  IN IF decl = {} THEN <<>>
     ELSE nodes[CHOOSE i \in decl : \A j \in decl : j <= i].childIds

RECURSIVE processNode(_, _, _, _, _)
RECURSIVE processChildren(_, _, _, _, _, _)

\* a processNode that numbers a node after its children
processNode_postOrder(nodes, verbose, sid, node, ctr) ==
  IF ~verbose /\ node.ignored
  THEN [node |-> NullNode, ctr |-> ctr]
  ELSE LET kids == processChildren(nodes, verbose, sid, childrenMapGet(nodes, node.nodeId), 1, ctr)
       IN [node |-> [isNull |-> FALSE, nodeId |-> node.nodeId, uid |-> <<sid, kids.ctr>>,
                     children |-> kids.list],
           ctr |-> kids.ctr + 1]

\* a processNode with the verbose test inverted
processNode_invertedVerbose(nodes, verbose, sid, node, ctr) ==
  IF verbose /\ node.ignored
  THEN [node |-> NullNode, ctr |-> ctr]
  ELSE LET kids == processChildren(nodes, verbose, sid, childrenMapGet(nodes, node.nodeId), 1, ctr + 1)
       IN [node |-> [isNull |-> FALSE, nodeId |-> node.nodeId, uid |-> <<sid, ctr>>,
                     children |-> kids.list],
           ctr |-> kids.ctr]

\* processNode(node) with the uidCounter it starts from: the processed node
\* (NullNode for null) and the uidCounter it leaves
processNode(nodes, verbose, sid, node, ctr) ==
  IF ~verbose /\ node.ignored
  THEN [node |-> NullNode, ctr |-> ctr]
  ELSE LET kids == processChildren(nodes, verbose, sid, childrenMapGet(nodes, node.nodeId), 1, ctr + 1)
       IN [node |-> [isNull |-> FALSE, nodeId |-> node.nodeId, uid |-> <<sid, ctr>>,
                     children |-> kids.list],
           ctr |-> kids.ctr]

\* childIds.map(...).filter(child => child !== null), from the i-th child id on
processChildren(nodes, verbose, sid, childIds, i, ctr) ==
  IF i > Len(childIds)
  THEN [list |-> <<>>, ctr |-> ctr]
  ELSE LET r == IF nodeMapHas(nodes, childIds[i])
                THEN processNode(nodes, verbose, sid, nodeMapGet(nodes, childIds[i]), ctr)
                ELSE [node |-> NullNode, ctr |-> ctr]
           rest == processChildren(nodes, verbose, sid, childIds, i + 1, r.ctr)
       IN [list |-> (IF r.node.isNull THEN <<>> ELSE <<r.node>>) \o rest.list,
           ctr |-> rest.ctr]

\* the calls processNode makes, with the node ids of the calls in progress:
\* TRUE when a call is made for a node whose own call has not returned, so
\* that the same calls follow again and the recursion has no end of its own
RECURSIVE recursesWithoutBound(_, _, _, _)
recursesWithoutBound(nodes, verbose, node, inProgress) ==
  IF ~verbose /\ node.ignored THEN FALSE
  ELSE IF node.nodeId \in inProgress THEN TRUE
  ELSE LET childIds == childrenMapGet(nodes, node.nodeId)
       IN \E i \in DOMAIN childIds :
            /\ nodeMapHas(nodes, childIds[i])
            /\ recursesWithoutBound(nodes, verbose, nodeMapGet(nodes, childIds[i]),
                                    inProgress \cup {node.nodeId})

\* the method after the list has arrived: null, the snapshot, or no return
\* of processNode(rootNode) at all (unbounded)
takeSnapshot(nodes, verbose, sid) ==
  IF Len(nodes) = 0
  THEN [taken |-> TRUE, isNull |-> TRUE, verbose |-> verbose, unbounded |-> FALSE]
  ELSE IF recursesWithoutBound(nodes, verbose, nodes[1], {})
  THEN [taken |-> TRUE, isNull |-> FALSE, verbose |-> verbose, unbounded |-> TRUE]
  ELSE [taken |-> TRUE, isNull |-> FALSE, verbose |-> verbose, unbounded |-> FALSE,
        root |-> processNode(nodes, verbose, sid, nodes[1], 0).node,
        snapshotId |-> sid]

(***************************************************************************)
(* The flat lists the accessibility source hands over: node ids are unique *)
(* and a child id is larger than its parent's, or names no node at all.    *)
(***************************************************************************)
ChildIdSeqs(lo, hi) ==
  { q \in UNION { [1..n -> lo..hi] : n \in 0..MaxChildIds } :
      \A a, b \in DOMAIN q : a # b => q[a] # q[b] }

\* the page's accessibility tree gains a node; its child ids may name nodes
\* that are not (or not yet) in the list
AddAxNode(ignored, childIds) ==
  /\ ~snapshot.taken
  /\ Len(axNodes) < MaxAxNodes
  /\ \A c \in DOMAIN childIds : childIds[c] > Len(axNodes) + 1
  /\ axNodes' = Append(axNodes, [nodeId |-> Len(axNodes) + 1, ignored |-> ignored,
                                 childIds |-> childIds])
  /\ UNCHANGED <<snapshot, hookVars, walkVars, sess, serVars, mapVars, listVars, nameVars, instVars>>

TakeSnapshot(verbose, sid) ==
  /\ ~snapshot.taken
  /\ snapshot' = takeSnapshot(axNodes, verbose, sid)
  /\ UNCHANGED <<axNodes, hookVars, walkVars, sess, serVars, mapVars, listVars, nameVars, instVars>>

NextSnapshot ==
  \/ \E ignored \in BOOLEAN, childIds \in ChildIdSeqs(2, MaxAxNodes + 1) :
       AddAxNode(ignored, childIds)
  \/ \E verbose \in BOOLEAN, sid \in SnapshotIds : TakeSnapshot(verbose, sid)

\* the nodes of the list whose child ids name the node itself or one before
BackReferring(nodes) ==
  { i \in DOMAIN nodes : \E c \in DOMAIN nodes[i].childIds : nodes[i].childIds[c] <= i }

\* the list gains a node one of whose child ids names the node itself or a
\* node that is in the list already
AddAxNodeBack(ignored, childIds, back) ==
  /\ ~snapshot.taken
  /\ Len(axNodes) < MaxAxNodes
  /\ Cardinality(BackReferring(axNodes)) < MaxBackReferring
  /\ Len(childIds) < MaxChildIds
  /\ \A c \in DOMAIN childIds : childIds[c] > Len(axNodes) + 1
  /\ back \in 1..(Len(axNodes) + 1)
  /\ axNodes' = Append(axNodes, [nodeId |-> Len(axNodes) + 1, ignored |-> ignored,
                                 childIds |-> Append(childIds, back)])
  /\ UNCHANGED <<snapshot, hookVars, walkVars, sess, serVars, mapVars, listVars, nameVars, instVars>>

NextSnapshotAny ==
  \/ NextSnapshot
  \/ \E ignored \in BOOLEAN, childIds \in ChildIdSeqs(2, MaxAxNodes + 1), back \in 1..MaxAxNodes :
       AddAxNodeBack(ignored, childIds, back)

(***************************************************************************)
(* The fiber walk of get_react_component_from_snapshot.  Fibers are        *)
(* numbered; fiber 1 is the one found on the element; 0 stands for null.   *)
(***************************************************************************)
maxSteps == 20

AuthoredTags == {0, 1, 11, 15}

HostComponent == 5

FunctionComponent == 0

isAuthored(g, f) == g.tag[f] \in AuthoredTags

\* fiber.return
retOf(g, f) == IF f < Len(g.tag) THEN f + 1 ELSE g.back

\* a loop that moves to fiber.return before it tests the tag
RECURSIVE nearestWalk_moveFirst(_, _, _, _)
nearestWalk_moveFirst(g, fiber, steps, followed) ==
  IF fiber # 0 /\ steps > 0
  THEN LET up == IF fiber < Len(g.tag) THEN fiber + 1 ELSE g.back
       IN IF up # 0 /\ g.tag[up] \in {0, 1, 11, 15}
          THEN [fiber |-> up, steps |-> steps - 1, followed |-> followed + 1]
          ELSE nearestWalk_moveFirst(g, up, steps - 1, followed + 1)
  ELSE [fiber |-> fiber, steps |-> steps, followed |-> followed]

\* the while loop: the fiber and budget it ends with, and the number of
\* times it followed fiber.return
RECURSIVE nearestWalk(_, _, _, _)
nearestWalk(g, fiber, steps, followed) ==
  IF fiber # 0 /\ steps > 0
  THEN IF isAuthored(g, fiber)
       THEN [fiber |-> fiber, steps |-> steps - 1, followed |-> followed]
       ELSE nearestWalk(g, retOf(g, fiber), steps - 1, followed + 1)
  ELSE [fiber |-> fiber, steps |-> steps, followed |-> followed]

maxOwners == 10

\* an owners loop that collects every ancestor, authored or not
RECURSIVE ownersWalk_allAncestors(_, _, _, _)
ownersWalk_allAncestors(g, current, budget, owners) ==
  IF current # 0 /\ budget > 0
  THEN ownersWalk_allAncestors(g, IF current < Len(g.tag) THEN current + 1 ELSE g.back,
                               budget - 1, Append(owners, current))
  ELSE owners

\* the owners loop: while (current && maxOwners > 0)
RECURSIVE ownersWalk(_, _, _, _)
ownersWalk(g, current, budget, owners) ==
  IF current # 0 /\ budget > 0
  THEN IF isAuthored(g, current)
       THEN ownersWalk(g, retOf(g, current), budget - 1, Append(owners, current))
       ELSE ownersWalk(g, retOf(g, current), budget, owners)
  ELSE owners

\* the owners loop has no step budget: on return pointers that form a cycle
\* without an authored fiber it neither reaches null nor uses up maxOwners
ownersLoopForever(g, fiber) ==
  /\ retOf(g, fiber) # 0
  /\ g.back # 0
  /\ \A f \in DOMAIN g.tag : ~isAuthored(g, f)

getReactComponentFromSnapshot(g) ==
  LET w == nearestWalk(g, 1, maxSteps, 0)
  IN IF w.fiber = 0
     THEN [done |-> TRUE, success |-> FALSE,
           error |-> "No React component found in fiber tree",
           fiber |-> 0, followed |-> w.followed, owners |-> <<>>, hangs |-> FALSE]
     ELSE IF ownersLoopForever(g, w.fiber)
     THEN [done |-> TRUE, success |-> FALSE, error |-> "",
           fiber |-> w.fiber, followed |-> w.followed, owners |-> <<>>, hangs |-> TRUE]
     ELSE [done |-> TRUE, success |-> TRUE, error |-> "",
           fiber |-> w.fiber, followed |-> w.followed,
           owners |-> ownersWalk(g, retOf(g, w.fiber), maxOwners, <<>>),
           hangs |-> FALSE]

AuthoredCount(g) == Cardinality({ i \in DOMAIN g.tag : g.tag[i] \in AuthoredTags })

\* the non-authored fibers above the lowest authored one
HostsAbove(g) ==
  Cardinality({ i \in DOMAIN g.tag :
                  /\ g.tag[i] \notin AuthoredTags
                  /\ \E j \in 1..(i - 1) : g.tag[j] \in AuthoredTags })

\* the graph gains a fiber above the topmost one
AddFiber(tag) ==
  /\ ~walkResult.done
  /\ fibers.back = 0
  /\ Len(fibers.tag) < MaxChain
  /\ tag \in AuthoredTags =>
       /\ AuthoredCount(fibers) < MaxAuthored
       /\ AuthoredCount(fibers) >= MaxVaried => tag = FunctionComponent
  /\ (tag \notin AuthoredTags /\ AuthoredCount(fibers) > 0) =>
       HostsAbove(fibers) < MaxHostsAbove
  /\ fibers' = [fibers EXCEPT !.tag = Append(@, tag)]
  /\ UNCHANGED <<walkResult, hookVars, snapVars, sess, serVars, mapVars, listVars, nameVars, instVars>>

\* a malformed graph: the topmost fiber's return points back to fiber 1
CloseCycle ==
  /\ ~walkResult.done
  /\ fibers.back = 0
  /\ Len(fibers.tag) > 0
  /\ fibers' = [fibers EXCEPT !.back = 1]
  /\ UNCHANGED <<walkResult, hookVars, snapVars, sess, serVars, mapVars, listVars, nameVars, instVars>>

Lookup ==
  /\ ~walkResult.done
  /\ Len(fibers.tag) > 0
  /\ walkResult' = getReactComponentFromSnapshot(fibers)
  /\ UNCHANGED <<fibers, hookVars, snapVars, sess, serVars, mapVars, listVars, nameVars, instVars>>

NextWalk ==
  \/ \E tag \in AuthoredTags \cup {HostComponent} : AddFiber(tag)
  \/ CloseCycle
  \/ Lookup

(***************************************************************************)
(* safeSerialize.  A value is a primitive, null, a function or a reference *)
(* to an object of the heap; an object is a plain object, an array, a      *)
(* React element ($$typeof) or a DOM node, and holds its entries in        *)
(* Object.entries order.  An entry of a plain object may carry a key that  *)
(* starts with __react.  The output keeps, next to each object, array and  *)
(* marker, the identity of the object it stands for and the number of      *)
(* nesting levels below the top-level value at which it was met.           *)
(***************************************************************************)
MaxObjects == 3

MaxEdges == 2

MaxDepth == 3

\* a maxDepth that no walk over the heap uses up
Unbounded == MaxObjects + MaxEdges + 1

FillSizes == {10, 11, 20, 21, 50, 51, 100, 101, 150}

\* obj.slice(0, 100) and Object.entries(obj).slice(0, 50) in the component
\* tool; slice(0, 10) and slice(0, 20) in the component map
ToolLimits == [array |-> 100, props |-> 50]

MapLimits == [array |-> 10, props |-> 20]

Prim(n) == [t |-> "prim", n |-> n]

Null == [t |-> "null", n |-> 0]

Fn == [t |-> "function", n |-> 0]

Ref(id) == [t |-> "ref", n |-> id]

Entry(react, val) == [react |-> react, val |-> val]

\* what safeSerialize returns for a value
Out(t, s, src, level, items) ==
  [t |-> t, s |-> s, src |-> src, level |-> level, items |-> items]

Marker(s, src, level) == Out("string", s, src, level, <<>>)

Min(a, b) == IF a < b THEN a ELSE b

RECURSIVE safeSerialize(_, _, _, _, _, _)
RECURSIVE serializeEntries(_, _, _, _, _, _, _, _)

\* a type dispatch that copies every entry
dispatch_noSlice(h, id, maxDepth, seen, lim, level) ==
  LET o == h[id]
  IN IF o.kind = "element"
     THEN [out |-> Marker("[React Element]", id, level), seen |-> seen, calls |-> 1]
     ELSE IF o.kind = "node"
     THEN [out |-> Marker("[DOM Node]", id, level), seen |-> seen, calls |-> 1]
     ELSE LET r == serializeEntries(h, o.entries, 1, Len(o.entries),
                                    maxDepth - 1, seen, lim, level + 1)
          IN [out |-> Out(o.kind, "", id, level, r.items),
              seen |-> r.seen, calls |-> r.calls + 1]

\* the type dispatch on an object that is new and within the depth limit:
\* array, React element, DOM node, plain object
dispatch(h, id, maxDepth, seen, lim, level) ==
  LET o == h[id]
  IN IF o.kind = "array"
     THEN LET r == serializeEntries(h, o.entries, 1, Min(Len(o.entries), lim.array),
                                    maxDepth - 1, seen, lim, level + 1)
          IN [out |-> Out("array", "", id, level, r.items),
              seen |-> r.seen, calls |-> r.calls + 1]
     ELSE IF o.kind = "element"
     THEN [out |-> Marker("[React Element]", id, level), seen |-> seen, calls |-> 1]
     ELSE IF o.kind = "node"
     THEN [out |-> Marker("[DOM Node]", id, level), seen |-> seen, calls |-> 1]
     ELSE LET r == serializeEntries(h, o.entries, 1, Min(Len(o.entries), lim.props),
                                    maxDepth - 1, seen, lim, level + 1)
          IN [out |-> Out("object", "", id, level, r.items),
              seen |-> r.seen, calls |-> r.calls + 1]

\* a serializer without the seen set
safeSerialize_noSeen(h, obj, maxDepth, seen, lim, level) ==
  IF obj.t # "ref"
  THEN [out |-> Out(obj.t, "", obj.n, level, <<>>), seen |-> seen, calls |-> 1]
  ELSE IF maxDepth <= 0
  THEN [out |-> Marker("[Max Depth]", obj.n, level), seen |-> seen, calls |-> 1]
  ELSE dispatch(h, obj.n, maxDepth, seen, lim, level)

\* a serializer that looks at the depth before it looks at the seen set
safeSerialize_depthFirst(h, obj, maxDepth, seen, lim, level) ==
  IF obj.t # "ref"
  THEN [out |-> Out(obj.t, "", obj.n, level, <<>>), seen |-> seen, calls |-> 1]
  ELSE IF maxDepth <= 0
  THEN [out |-> Marker("[Max Depth]", obj.n, level), seen |-> seen \cup {obj.n}, calls |-> 1]
  ELSE IF obj.n \in seen
  THEN [out |-> Marker("[Circular]", obj.n, level), seen |-> seen, calls |-> 1]
  ELSE dispatch(h, obj.n, maxDepth, seen \cup {obj.n}, lim, level)

\* a serializer that expands one level more
safeSerialize_lateDepth(h, obj, maxDepth, seen, lim, level) ==
  IF obj.t # "ref"
  THEN [out |-> Out(obj.t, "", obj.n, level, <<>>), seen |-> seen, calls |-> 1]
  ELSE IF obj.n \in seen
  THEN [out |-> Marker("[Circular]", obj.n, level), seen |-> seen, calls |-> 1]
  ELSE IF maxDepth < 0
  THEN [out |-> Marker("[Max Depth]", obj.n, level), seen |-> seen \cup {obj.n}, calls |-> 1]
  ELSE dispatch(h, obj.n, maxDepth, seen \cup {obj.n}, lim, level)

\* safeSerialize(obj, maxDepth, seen): the value returned, the seen set and
\* the number of calls made, level being the nesting level of obj
safeSerialize(h, obj, maxDepth, seen, lim, level) ==
  IF obj.t = "null" \/ obj.t = "prim"
  THEN [out |-> Out(obj.t, "", obj.n, level, <<>>), seen |-> seen, calls |-> 1]
  ELSE IF obj.t # "ref"
  THEN \* typeof obj !== 'object': a function is returned as it is
       [out |-> Out(obj.t, "", obj.n, level, <<>>), seen |-> seen, calls |-> 1]
  ELSE IF obj.n \in seen
  THEN [out |-> Marker("[Circular]", obj.n, level), seen |-> seen, calls |-> 1]
  ELSE LET seen1 == seen \cup {obj.n}
       IN IF maxDepth <= 0
          THEN [out |-> Marker("[Max Depth]", obj.n, level), seen |-> seen1, calls |-> 1]
          ELSE dispatch(h, obj.n, maxDepth, seen1, lim, level)

\* the map over the sliced array and the for loop over the sliced entries,
\* which skips a key that starts with __react: entries lo..hi in order, the
\* seen set handed from each entry to the next (the range is halved only to
\* keep the evaluation shallow)
serializeEntries(h, entries, lo, hi, maxDepth, seen, lim, level) ==
  IF lo > hi
  THEN [items |-> <<>>, seen |-> seen, calls |-> 0]
  ELSE IF lo = hi
  THEN IF entries[lo].react
       THEN [items |-> <<>>, seen |-> seen, calls |-> 0]
       ELSE LET r == safeSerialize(h, entries[lo].val, maxDepth, seen, lim, level)
            IN [items |-> <<[key |-> lo, val |-> r.out]>>, seen |-> r.seen, calls |-> r.calls]
  ELSE LET mid == (lo + hi) \div 2
           first == serializeEntries(h, entries, lo, mid, maxDepth, seen, lim, level)
           rest == serializeEntries(h, entries, mid + 1, hi, maxDepth, first.seen, lim, level)
       IN [items |-> first.items \o rest.items, seen |-> rest.seen,
           calls |-> first.calls + rest.calls]

EdgeCount(h) ==
  LET RECURSIVE sum(_)
      sum(i) == IF i = 0 THEN 0
                ELSE sum(i - 1) + (IF Len(h[i].entries) > MaxEdges THEN 1 ELSE Len(h[i].entries))
  IN sum(Len(h))

Expandable(h, o) == o \in DOMAIN h /\ h[o].kind \in {"object", "array"}

\* the value to serialize comes into being: its top-level object
NewRoot(kind) ==
  /\ ~serResult.done
  /\ heap = <<>>
  /\ heap' = <<[kind |-> kind, entries |-> <<>>]>>
  /\ UNCHANGED <<serResult, hookVars, snapVars, walkVars, sess, mapVars, listVars, nameVars, instVars>>

\* an object gains an entry: a primitive, a function or a reference to an
\* object that exists
AddEntry(o, react, val) ==
  /\ ~serResult.done
  /\ Expandable(heap, o)
  /\ Len(heap[o].entries) < MaxEdges
  /\ EdgeCount(heap) < MaxEdges
  /\ react => (heap[o].kind = "object" /\ val.t = "prim")
  /\ val.t = "ref" => val.n \in DOMAIN heap
  /\ heap' = [heap EXCEPT ![o].entries = Append(@, Entry(react, val))]
  /\ UNCHANGED <<serResult, hookVars, snapVars, walkVars, sess, mapVars, listVars, nameVars, instVars>>

\* an object gains an entry that refers to a new object
AddChild(o, kind) ==
  /\ ~serResult.done
  /\ Expandable(heap, o)
  /\ Len(heap[o].entries) < MaxEdges
  /\ EdgeCount(heap) < MaxEdges
  /\ Len(heap) < MaxObjects
  /\ heap' = Append([heap EXCEPT ![o].entries = Append(@, Entry(FALSE, Ref(Len(heap) + 1)))],
                    [kind |-> kind, entries |-> <<>>])
  /\ UNCHANGED <<serResult, hookVars, snapVars, walkVars, sess, mapVars, listVars, nameVars, instVars>>

\* an empty array or object is filled with n primitives
Fill(o, n) ==
  /\ ~serResult.done
  /\ Expandable(heap, o)
  /\ heap[o].entries = <<>>
  /\ EdgeCount(heap) < MaxEdges
  /\ heap' = [heap EXCEPT ![o].entries = [i \in 1..n |-> Entry(FALSE, Prim(i))]]
  /\ UNCHANGED <<serResult, hookVars, snapVars, walkVars, sess, mapVars, listVars, nameVars, instVars>>

\* safeSerialize(top, maxDepth) with a new WeakSet
Serialize(top, maxDepth, caller) ==
  /\ ~serResult.done
  /\ IF top.t = "ref" THEN top.n \in DOMAIN heap ELSE heap = <<>>
  /\ LET r == safeSerialize(heap, top, maxDepth, {},
                            IF caller = "tool" THEN ToolLimits ELSE MapLimits, 0)
     IN serResult' = [done |-> TRUE, top |-> top, maxDepth |-> maxDepth,
                      caller |-> caller, out |-> r.out, calls |-> r.calls]
  /\ UNCHANGED <<heap, hookVars, snapVars, walkVars, sess, mapVars, listVars, nameVars, instVars>>

Kinds == {"object", "array", "element", "node"}

NextSerialize ==
  \/ \E kind \in Kinds : NewRoot(kind)
  \/ \E o \in 1..MaxObjects, react \in BOOLEAN,
        val \in {Prim(0), Fn} \cup {Ref(j) : j \in 1..MaxObjects} : AddEntry(o, react, val)
  \/ \E o \in 1..MaxObjects, kind \in Kinds : AddChild(o, kind)
  \/ \E o \in 1..MaxObjects, n \in FillSizes : Fill(o, n)
  \/ \E top \in {Ref(1), Fn, Prim(0), Null}, maxDepth \in 0..MaxDepth \cup {Unbounded},
        caller \in {"tool", "map"} : Serialize(top, maxDepth, caller)

(***************************************************************************)
(* The page function of getComponentMap.  tree.fibers are numbered; 0      *)
(* stands for null.  tree.roots holds, per registration in the order of    *)
(* hook.renderers, the root.current of each root in the order of the root  *)
(* set.  A host fiber carries whether the accessibility index built by     *)
(* buildAxMap has an entry for its DOM node.  A line is the fiber it is    *)
(* about, the depth handed to walkFiber and the prefix, one token per      *)
(* level.                                                                  *)
(***************************************************************************)
MaxSize == 4

HostRoot == 3

MapTags == {FunctionComponent, HostComponent, HostRoot}

Line(kind, fiber, depth, prefix) ==
  [kind |-> kind, fiber |-> fiber, depth |-> depth, prefix |-> prefix]

HeaderLines ==
  <<Line("React Component Tree:", 0, 0, <<>>), Line("", 0, 0, <<>>)>>

\* prefix.replace(/├─/g, '│ ').replace(/└─/g, '  '), the box characters
\* written as "|- ", "L- " and "|  "
childPrefixOf(prefix) ==
  [i \in DOMAIN prefix |->
     IF prefix[i] = "|- " THEN "|  "
     ELSE IF prefix[i] = "L- " THEN "   "
     ELSE prefix[i]]

\* let child = fiber.child; while (child) { ...; child = child.sibling }
RECURSIVE siblingChain(_, _)
siblingChain(g, child) ==
  IF child = 0 THEN <<>>
  ELSE <<child>> \o siblingChain(g, g[child].sibling)

RECURSIVE walkFiber(_, _, _, _, _, _)
RECURSIVE walkChildren(_, _, _, _, _, _, _, _)

\* a walk without the processedFibers set
walkFiber_noProcessed(g, fiber, depth, prefix, isLast, st) ==
  IF fiber = 0 THEN st
  ELSE LET children == siblingChain(g, g[fiber].child)
       IN IF g[fiber].tag \in AuthoredTags
          THEN walkChildren(g, children, 1, depth + 1, childPrefixOf(prefix), TRUE, isLast,
                            [st EXCEPT !.lines = Append(@, Line("component", fiber, depth, prefix)),
                                       !.expanded = Append(@, fiber)])
          ELSE walkChildren(g, children, 1, depth, prefix, FALSE, isLast,
                            [st EXCEPT !.expanded = Append(@, fiber)])

\* a walk that pushes the line of a component after its children's lines
walkFiber_lineLast(g, fiber, depth, prefix, isLast, st) ==
  IF fiber = 0 \/ fiber \in st.processed THEN st
  ELSE LET st1 == [st EXCEPT !.processed = @ \cup {fiber}, !.expanded = Append(@, fiber)]
           children == siblingChain(g, g[fiber].child)
       IN IF g[fiber].tag \in AuthoredTags
          THEN LET st2 == walkChildren(g, children, 1, depth + 1, childPrefixOf(prefix),
                                       TRUE, isLast, st1)
               IN [st2 EXCEPT !.lines = Append(@, Line("component", fiber, depth, prefix))]
          ELSE walkChildren(g, children, 1, depth, prefix, FALSE, isLast, st1)

\* walkFiber(fiber, depth, prefix, isLast); st holds lines, processedFibers
\* and, for the claims, the fibers whose children were gone through
walkFiber(g, fiber, depth, prefix, isLast, st) ==
  IF fiber = 0 \/ fiber \in st.processed THEN st
  ELSE LET st1 == [st EXCEPT !.processed = @ \cup {fiber}, !.expanded = Append(@, fiber)]
           children == siblingChain(g, g[fiber].child)
       IN IF g[fiber].tag \in AuthoredTags
          THEN walkChildren(g, children, 1, depth + 1, childPrefixOf(prefix), TRUE, isLast,
                            [st1 EXCEPT !.lines = Append(@, Line("component", fiber, depth, prefix))])
          ELSE \* a host element or another fiber type: only its children
               walkChildren(g, children, 1, depth, prefix, FALSE, isLast, st1)

\* children.forEach under a component, which appends a connector to the
\* prefix; the while loop under any other fiber, which hands on what it got
walkChildren(g, children, idx, depth, prefix, connect, isLast, st) ==
  IF idx > Len(children) THEN st
  ELSE LET isLastChild == idx = Len(children)
           connector == IF isLastChild THEN "L- " ELSE "|- "
           st1 == IF connect
                  THEN walkFiber(g, children[idx], depth, Append(prefix, connector),
                                 isLastChild, st)
                  ELSE walkFiber(g, children[idx], depth, prefix, isLast, st)
       IN walkChildren(g, children, idx + 1, depth, prefix, connect, isLast, st1)

\* roots.forEach of one registration: the header before the first root of
\* all, then walkFiber(root.current, 0, '', true) when current is not null
RECURSIVE walkRoots(_, _, _, _)
walkRoots(g, roots, idx, st) ==
  IF idx > Len(roots) THEN st
  ELSE LET st1 == IF st.foundAny THEN st
                  ELSE [st EXCEPT !.lines = @ \o HeaderLines, !.foundAny = TRUE]
       IN walkRoots(g, roots, idx + 1, walkFiber(g, roots[idx], 0, <<>>, TRUE, st1))

\* hook.renderers.forEach: a registration without roots is passed over
RECURSIVE walkRenderers(_, _, _, _)
walkRenderers(g, rootSets, r, st) ==
  IF r > Len(rootSets) THEN st
  ELSE walkRenderers(g, rootSets, r + 1, walkRoots(g, rootSets[r], 1, st))

\* the page function: {error} or {lines}
componentMap(t) ==
  LET st == walkRenderers(t.fibers, t.roots, 1,
                          [lines |-> <<>>, processed |-> {}, expanded |-> <<>>,
                           foundAny |-> FALSE])
  IN IF ~st.foundAny
     THEN [done |-> TRUE, error |-> "No React roots found", lines |-> <<>>,
           expanded |-> <<>>]
     ELSE [done |-> TRUE, error |-> "", lines |-> st.lines, expanded |-> st.expanded]

NewFiber(tag, ax) == [tag |-> tag, child |-> 0, sibling |-> 0, ax |-> ax]

CanGrow == ~mapResult.done /\ listing = <<>> /\ tree.size < MaxSize

\* a registration gains a root: its current is a new fiber, a fiber that
\* exists or null (cur = 0); a new current is a HostRoot fiber
AddRoot(r, cur) ==
  /\ CanGrow
  /\ r \in 1..(Len(tree.roots) + 1)
  /\ cur \in 0..(Len(tree.fibers) + 1)
  /\ LET fresh == cur = Len(tree.fibers) + 1
         rootSets == IF r > Len(tree.roots) THEN Append(tree.roots, <<cur>>)
                     ELSE [tree.roots EXCEPT ![r] = Append(@, cur)]
     IN tree' = [fibers |-> IF fresh THEN Append(tree.fibers, NewFiber(HostRoot, FALSE))
                            ELSE tree.fibers,
                 roots |-> rootSets, size |-> tree.size + 1]
  /\ UNCHANGED <<mapResult, hookVars, snapVars, walkVars, sess, serVars, listVars, nameVars, instVars>>

\* a registration without roots
AddRenderer ==
  /\ CanGrow
  /\ tree' = [tree EXCEPT !.roots = Append(@, <<>>), !.size = @ + 1]
  /\ UNCHANGED <<mapResult, hookVars, snapVars, walkVars, sess, serVars, listVars, nameVars, instVars>>

\* fiber p gains a first child (asChild) or a next sibling: a new fiber, or
\* one rendered after p that is reachable by another path already
LinkFiber(p, asChild, f, tag, ax) ==
  /\ CanGrow
  /\ p \in DOMAIN tree.fibers
  /\ f \in (p + 1)..(Len(tree.fibers) + 1)
  /\ IF asChild THEN tree.fibers[p].child = 0 ELSE tree.fibers[p].sibling = 0
  /\ ax => tag = HostComponent
  /\ LET fresh == f = Len(tree.fibers) + 1
         linked == IF asChild THEN [tree.fibers EXCEPT ![p].child = f]
                   ELSE [tree.fibers EXCEPT ![p].sibling = f]
     IN tree' = [tree EXCEPT
                   !.fibers = IF fresh THEN Append(linked, NewFiber(tag, ax)) ELSE linked,
                   !.size = @ + 1]
  /\ UNCHANGED <<mapResult, hookVars, snapVars, walkVars, sess, serVars, listVars, nameVars, instVars>>

\* page.evaluate of getComponentMap on a page whose hook is in place
ComponentMap ==
  /\ ~mapResult.done
  /\ mapResult' = componentMap(tree)
  /\ UNCHANGED <<tree, hookVars, snapVars, walkVars, sess, serVars, listVars, nameVars, instVars>>

NextMap ==
  \/ \E r \in 1..MaxSize, cur \in 0..MaxSize : AddRoot(r, cur)
  \/ AddRenderer
  \/ \E p \in 1..MaxSize, asChild \in BOOLEAN, f \in 1..MaxSize, tag \in MapTags,
        ax \in BOOLEAN : LinkFiber(p, asChild, f, tag, ax)
  \/ ComponentMap

(***************************************************************************)
(* listRoots: the page function that lists the roots of every registration *)
(* with an id, an index and a rough node count.  It reads the same fiber   *)
(* trees as getComponentMap; here a child or sibling pointer may also lead *)
(* back to a fiber that was rendered earlier.                              *)
(***************************************************************************)
MaxListings == 2

MaxBackLinks == 1

MaxListed == 3

limit == 2000

DigitChars == <<"0", "1", "2", "3", "4", "5", "6", "7", "8", "9">>

\* the decimal digits a template literal writes for a number
RECURSIVE Digits(_)
Digits(n) ==
  IF n < 10 THEN <<DigitChars[n + 1]>>
  ELSE Digits(n \div 10) \o <<DigitChars[(n % 10) + 1]>>

\* `${rendererId}:${idx}`, a string as the sequence of its characters
rootIdOf(rendererId, idx) == Digits(rendererId) \o <<":">> \o Digits(idx)

\* a loop that goes on for as long as the stack holds something
countCond_noLimit(s) == s.stack # <<>>

\* while (stack.length && count < limit)
countCond(s) == s.stack # <<>> /\ s.count < limit

\* one turn of the counting loop: stack.pop(), count++, push child, sibling
countStep(g, s) ==
  LET node == s.stack[Len(s.stack)]
      rest == SubSeq(s.stack, 1, Len(s.stack) - 1)
  IN IF node = 0 THEN [s EXCEPT !.stack = rest]
     ELSE LET withChild == IF g[node].child # 0 THEN Append(rest, g[node].child)
                           ELSE rest
              withBoth == IF g[node].sibling # 0 THEN Append(withChild, g[node].sibling)
                          ELSE withChild
          IN [stack |-> withBoth, count |-> s.count + 1]

\* the counting loop, followed for at most n turns
RECURSIVE countLoop(_, _, _)
countLoop(g, s, n) ==
  IF ~countCond(s) \/ n = 0 THEN s
  ELSE IF n = 1 THEN countStep(g, s)
  ELSE countLoop(g, countLoop(g, s, n \div 2), n - (n \div 2))

\* the number of turns the loop is followed for before it counts as one
\* that does not end
countTurns == limit + 2

\* const stack = [root?.current]; ...; nodes: count
countNodes(g, current) ==
  LET s == countLoop(g, [stack |-> <<current>>, count |-> 0], countTurns)
  IN [nodes |-> s.count, ended |-> ~countCond(s)]

RECURSIVE listRootSet(_, _, _, _, _, _)

\* a listing whose idx is never incremented
listRootSet_noIncrement(g, roots, pos, rendererId, idx, results) ==
  IF pos > Len(roots) THEN results
  ELSE listRootSet(g, roots, pos + 1, rendererId, idx,
                   Append(results, [rendererId |-> rendererId,
                                    rootId |-> rootIdOf(rendererId, idx),
                                    rootIndex |-> idx,
                                    root |-> <<rendererId, pos>>,
                                    count |-> countNodes(g, roots[pos])]))

\* let idx = 0; fiberRoots.forEach(root => { ...; results.push(...); idx++ });
\* root is, for the claims, which root of the page the entry was made for
listRootSet(g, roots, pos, rendererId, idx, results) ==
  IF pos > Len(roots) THEN results
  ELSE listRootSet(g, roots, pos + 1, rendererId, idx + 1,
                   Append(results, [rendererId |-> rendererId,
                                    rootId |-> rootIdOf(rendererId, idx),
                                    rootIndex |-> idx,
                                    root |-> <<rendererId, pos>>,
                                    count |-> countNodes(g, roots[pos])]))

\* hook.renderers.forEach: a registration without roots is passed over
RECURSIVE listRenderers(_, _, _, _)
listRenderers(g, rootSets, r, results) ==
  IF r > Len(rootSets) THEN results
  ELSE listRenderers(g, rootSets, r + 1, listRootSet(g, rootSets[r], 1, r, 0, results))

\* the page function of listRoots
listRoots(t) == listRenderers(t.fibers, t.roots, 1, <<>>)

\* the pointers that lead to a fiber rendered no later than their owner
BackLinks(g) ==
  Cardinality({ p \in DOMAIN g : g[p].child # 0 /\ g[p].child <= p })
    + Cardinality({ p \in DOMAIN g : g[p].sibling # 0 /\ g[p].sibling <= p })

\* fiber p gains a child or sibling pointer to itself or to an earlier fiber
LinkBack(p, asChild, f) ==
  /\ CanGrow
  /\ BackLinks(tree.fibers) < MaxBackLinks
  /\ p \in DOMAIN tree.fibers
  /\ f \in 1..p
  /\ IF asChild THEN tree.fibers[p].child = 0 ELSE tree.fibers[p].sibling = 0
  /\ tree' = [tree EXCEPT
                !.fibers = IF asChild THEN [@ EXCEPT ![p].child = f]
                           ELSE [@ EXCEPT ![p].sibling = f],
                !.size = @ + 1]
  /\ UNCHANGED <<mapResult, hookVars, snapVars, walkVars, sess, serVars, listVars, nameVars, instVars>>

\* page.evaluate of listRoots on a page whose hook is in place
ListRoots ==
  /\ Len(listing) < MaxListings
  /\ tree.size > 0
  /\ listing' = Append(listing, listRoots(tree))
  /\ UNCHANGED <<hookVars, snapVars, walkVars, sess, serVars, mapVars, nameVars, instVars>>

\* the pages that are listed have few roots and pointers
NextRoots ==
  \/ \E r \in 1..MaxListed, cur \in 0..MaxListed :
       tree.size < MaxListed /\ AddRoot(r, cur)
  \/ tree.size < MaxListed /\ AddRenderer
  \/ \E p \in 1..MaxListed, asChild \in BOOLEAN, f \in 1..MaxListed, tag \in MapTags :
       tree.size < MaxListed /\ LinkFiber(p, asChild, f, tag, FALSE)
  \/ \E p \in 1..MaxListed, asChild \in BOOLEAN, f \in 1..MaxListed :
       tree.size < MaxListed /\ LinkBack(p, asChild, f)
  \/ ListRoots

(***************************************************************************)
(* getComponentName: the display name of a fiber.  The function exists in  *)
(* four copies.  A fiber is given by its tag and by the names its type and *)
(* elementType carry; a name that is undefined or empty is "", the two     *)
(* being the same to || and to if.                                         *)
(***************************************************************************)
ClassComponent == 1

ForwardRef == 11

MemoComponent == 15

NameTags == {FunctionComponent, ClassComponent, ForwardRef, MemoComponent, HostComponent}

NameFields ==
  {"type.displayName", "type.name", "elementType.name",
   "type.render.displayName", "type.render.name", "elementType.render.name",
   "type.type.displayName", "type.type.name", "elementType.type.name"}

\* a || b
Or(a, b) == IF a # "" THEN a ELSE b

\* the switch on fiber.tag of the copies in getComponentMap,
\* debugExtractMetadata and debugExtractOwners
nameByTag(fiber) ==
  IF fiber.tag \in {FunctionComponent, ClassComponent}
  THEN Or(fiber["type.name"], Or(fiber["elementType.name"], "Anonymous"))
  ELSE IF fiber.tag = ForwardRef
  THEN Or(fiber["type.render.displayName"],
          Or(fiber["type.render.name"],
             Or(fiber["elementType.render.name"], "ForwardRef")))
  ELSE IF fiber.tag = MemoComponent
  THEN Or(fiber["type.type.displayName"],
          Or(fiber["type.type.name"],
             Or(fiber["elementType.type.name"], "Memo")))
  ELSE "Unknown"

\* the switch of the copy in get_react_component_from_snapshot
nameByTag_snapshotTool(fiber) ==
  IF fiber.tag \in {FunctionComponent, ClassComponent}
  THEN Or(fiber["type.name"], Or(fiber["elementType.name"], "Anonymous"))
  ELSE IF fiber.tag = ForwardRef
  THEN Or(fiber["type.render.displayName"], Or(fiber["type.render.name"], "ForwardRef"))
  ELSE IF fiber.tag = MemoComponent
  THEN Or(fiber["type.type.displayName"], Or(fiber["type.type.name"], "Memo"))
  ELSE "Unknown"

NamePlaces ==
  {"getComponentMap", "debugExtractMetadata", "debugExtractOwners",
   "getReactComponentFromSnapshot"}

\* if (fiber.type?.displayName) return fiber.type.displayName; switch ...
getComponentName(place, fiber) ==
  IF fiber["type.displayName"] # "" THEN fiber["type.displayName"]
  ELSE IF place = "getReactComponentFromSnapshot" THEN nameByTag_snapshotTool(fiber)
  ELSE nameByTag(fiber)

\* a fiber whose fields in present carry a name; the name says which field
\* it is the name of
FiberNamed(tag, present) ==
  [k \in NameFields \cup {"tag"} |->
     IF k = "tag" THEN tag ELSE IF k \in present THEN k ELSE ""]

\* every copy is handed the same fiber
GetComponentName(tag, present) ==
  /\ ~naming.done
  /\ naming' = [done |-> TRUE, fiber |-> FiberNamed(tag, present),
                names |-> [place \in NamePlaces |->
                             getComponentName(place, FiberNamed(tag, present))]]
  /\ UNCHANGED <<hookVars, snapVars, walkVars, sess, serVars, mapVars, listVars, instVars>>

NextName ==
  \E tag \in NameTags, present \in SUBSET NameFields : GetComponentName(tag, present)

(***************************************************************************)
(* ensureBackendInjected when calls on one session overlap.  The method is *)
(* async: a caller runs from one await to the next without interruption    *)
(* and another caller may run while it waits.  Of the page only what the   *)
(* method asks for is kept: whether the hook is there.                     *)
(*   pc          : the await each caller is suspended at                   *)
(*   initScripts : the init scripts registered on the page                 *)
(*   injections  : the runtime injections performed                        *)
(*   reloads     : the reloads performed                                   *)
(***************************************************************************)
MaxCallers == 2

MaxEnsureCalls == 3

Callers == 1..MaxCallers

NoInstallation ==
  [backendInjected |-> FALSE, hasHook |-> FALSE, calls |-> 0,
   pc |-> [c \in Callers |-> "idle"],
   initScripts |-> 0, injections |-> 0, reloads |-> 0]

\* a rejected await: the method throws and the flag stays as it is
rejected(i, c) == [i EXCEPT !.pc[c] = "idle"]

\* if (this.#backendInjected) return; await this.#page.setBypassCSP(true):
\* a caller enters: the flag is tested and, if it is not set, setBypassCSP
\* is sent, all before the first await
EnsureBegin(c) ==
  /\ inst.pc[c] = "idle"
  /\ inst.calls < MaxEnsureCalls
  /\ inst' = [inst EXCEPT !.calls = @ + 1,
                          !.pc[c] = IF inst.backendInjected THEN "idle" ELSE "csp"]
  /\ UNCHANGED <<hookVars, snapVars, walkVars, sess, serVars, mapVars, listVars, nameVars>>

\* setBypassCSP answers; evaluateOnNewDocument is sent
EnsureCsp(c, ok) ==
  /\ inst.pc[c] = "csp"
  /\ inst' = IF ok THEN [inst EXCEPT !.pc[c] = "addInit"] ELSE rejected(inst, c)
  /\ UNCHANGED <<hookVars, snapVars, walkVars, sess, serVars, mapVars, listVars, nameVars>>

\* evaluateOnNewDocument answers: the script is registered; the first hook
\* check is sent
EnsureAddInit(c, ok) ==
  /\ inst.pc[c] = "addInit"
  /\ inst' = IF ok THEN [inst EXCEPT !.pc[c] = "check1", !.initScripts = @ + 1]
             ELSE rejected(inst, c)
  /\ UNCHANGED <<hookVars, snapVars, walkVars, sess, serVars, mapVars, listVars, nameVars>>

\* the first hook check answers: with a hook the flag is set and the method
\* returns, without one the runtime injection is sent
EnsureCheck1(c, ok) ==
  /\ inst.pc[c] = "check1"
  /\ inst' = IF ~ok THEN rejected(inst, c)
             ELSE IF inst.hasHook
                  THEN [inst EXCEPT !.pc[c] = "idle", !.backendInjected = TRUE]
                  ELSE [inst EXCEPT !.pc[c] = "inject"]
  /\ UNCHANGED <<hookVars, snapVars, walkVars, sess, serVars, mapVars, listVars, nameVars>>

\* the runtime injection answers: eval(bootstrap) ran in the page and put
\* the hook in place unless it threw; the second hook check is sent
EnsureInject(c, ok, evalOk) ==
  /\ inst.pc[c] = "inject"
  /\ inst' = IF ok
             THEN [inst EXCEPT !.pc[c] = "check2", !.injections = @ + 1,
                               !.hasHook = @ \/ evalOk]
             ELSE rejected(inst, c)
  /\ UNCHANGED <<hookVars, snapVars, walkVars, sess, serVars, mapVars, listVars, nameVars>>

\* the second hook check answers: without a hook the reload is sent
EnsureCheck2(c, ok) ==
  /\ inst.pc[c] = "check2"
  /\ inst' = IF ~ok THEN rejected(inst, c)
             ELSE IF inst.hasHook
                  THEN [inst EXCEPT !.pc[c] = "idle", !.backendInjected = TRUE]
                  ELSE [inst EXCEPT !.pc[c] = "reload"]
  /\ UNCHANGED <<hookVars, snapVars, walkVars, sess, serVars, mapVars, listVars, nameVars>>

\* the reload answers: a new document in which the registered init scripts
\* ran, with a hook if one of them got through; the flag is set
EnsureReload(c, ok, evalOk) ==
  /\ inst.pc[c] = "reload"
  /\ inst' = IF ok
             THEN [inst EXCEPT !.pc[c] = "idle", !.reloads = @ + 1,
                               !.hasHook = inst.initScripts > 0 /\ evalOk,
                               !.backendInjected = TRUE]
             ELSE rejected(inst, c)
  /\ UNCHANGED <<hookVars, snapVars, walkVars, sess, serVars, mapVars, listVars, nameVars>>

NextOverlap ==
  \/ \E c \in Callers : EnsureBegin(c)
  \/ \E c \in Callers, ok \in BOOLEAN : EnsureCsp(c, ok)
  \/ \E c \in Callers, ok \in BOOLEAN : EnsureAddInit(c, ok)
  \/ \E c \in Callers, ok \in BOOLEAN : EnsureCheck1(c, ok)
  \/ \E c \in Callers, ok \in BOOLEAN, evalOk \in BOOLEAN : EnsureInject(c, ok, evalOk)
  \/ \E c \in Callers, ok \in BOOLEAN : EnsureCheck2(c, ok)
  \/ \E c \in Callers, ok \in BOOLEAN, evalOk \in BOOLEAN : EnsureReload(c, ok, evalOk)

(***************************************************************************)
(* History of the page, for stating the claims.                            *)
(*   pre        : what the hook held when the bootstrap first ran          *)
(*   registered : <<id, renderer, installs>> for each inject on the        *)
(*                installed hook                                           *)
(*   committed  : <<id, root, installs>> for each commit on it             *)
(***************************************************************************)
Installed == Len(hook.layers) > 0

Init ==
  /\ hook = NoHook
  /\ hist = InitHist
  /\ axNodes = <<>>
  /\ snapshot = NoSnapshot
  /\ fibers = NoFibers
  /\ walkResult = NoWalk
  /\ sess = NewSession
  /\ heap = <<>>
  /\ serResult = NoSerialized
  /\ tree = NoTree
  /\ mapResult = NoMap
  /\ listing = NoListing
  /\ naming = NoNaming
  /\ inst = NoInstallation

\* a script of the page puts its own hook in place before the bootstrap runs
ForeignSetup(s) ==
  /\ ~hook.present
  /\ hist.installs = 0
  /\ hook' = ForeignHook(s)
  /\ hist' = [hist EXCEPT !.issued = DOMAIN ForeignHook(s).renderers,
                          !.last = "foreign", !.trace = <<>>]
  /\ UNCHANGED <<snapVars, walkVars, sess, serVars, mapVars, listVars, nameVars, instVars>>

\* the history after a run of the bootstrap against hook h
histInstall(h, hs) ==
  [hs EXCEPT
     !.installs = @ + 1,
     !.pre = IF hs.pre.taken THEN @
             ELSE [taken |-> TRUE, foreign |-> h.present,
                   renderers |-> IF h.hasRenderers THEN h.renderers ELSE EmptyMap,
                   roots |-> [id \in hs.issued |-> getFiberRoots(h, id)],
                   field |-> IF h.hasRootsField THEN h.fiberRoots ELSE EmptyMap],
     !.last = "install", !.trace = <<>>]

\* eval(bootstrap) in the page, from either injection point
Install ==
  /\ hist.installs < MaxInstalls
  /\ hook' = initReactHook(hook)
  /\ hist' = histInstall(hook, hist)
  /\ UNCHANGED <<snapVars, walkVars, sess, serVars, mapVars, listVars, nameVars, instVars>>

\* a framework instance registers: hook.inject(renderer)
Inject ==
  /\ hook.present
  /\ Installed \/ hook.fInject
  /\ hist.injects < MaxInjects
  /\ LET r == NewRenderer(hist.injects)
         res == inject(hook, Len(hook.layers), r)
     IN /\ hook' = res.h
        /\ hist' = [hist EXCEPT
             !.injects = @ + 1,
             !.issued = @ \cup {res.id},
             !.registered = IF Installed THEN @ \cup {<<res.id, r, hist.installs>>} ELSE @,
             !.last = "inject", !.trace = res.tr]
  /\ UNCHANGED <<snapVars, walkVars, sess, serVars, mapVars, listVars, nameVars, instVars>>

\* a registered instance commits a root: hook.onCommitFiberRoot(id, root)
Commit(id, root) ==
  /\ hook.present
  /\ Installed \/ hook.fCommit
  /\ hist.commits < MaxCommits
  /\ id \in hist.issued
  /\ LET res == onCommitFiberRoot(hook, Len(hook.layers), id, root)
     IN /\ hook' = res.h
        /\ hist' = [hist EXCEPT
             !.commits = @ + 1,
             !.committed = IF Installed THEN @ \cup {<<id, root, hist.installs>>} ELSE @,
             !.lastCommit = IF Installed THEN MapSet(@, id, root) ELSE @,
             !.last = "commit", !.trace = res.tr]
  /\ UNCHANGED <<snapVars, walkVars, sess, serVars, mapVars, listVars, nameVars, instVars>>

NextHook ==
  \/ \E s \in ForeignShapes : ForeignSetup(s)
  \/ Install
  \/ Inject
  \/ \E id \in hist.issued, root \in Roots : Commit(id, root)

(***************************************************************************)
(* The session.  One operation runs at a time; sess.pc is the await the    *)
(* operation is suspended at.  Every round trip to the page may reject     *)
(* (ok = FALSE): the target closed, the frame went away.  eval(bootstrap)  *)
(* inside the page may throw, which the page-side try/catch swallows.      *)
(*   run     : how often each step ran in the current execution of         *)
(*             ensureBackendInjected, absent counting the hook checks that *)
(*             answered false, body the steps of the operation after it    *)
(*   outcome : how the last operation ended                                *)
(***************************************************************************)
MaxCalls == 2

MaxNavigations == 1

Operations == {"attach", "listRoots", "takeSnapshot", "getComponentMap"}

SessionShapes ==
  { s \in ForeignShapes :
      \/ s = [inject |-> FALSE, commit |-> FALSE, getRoots |-> FALSE,
              renderers |-> FALSE, rootsField |-> FALSE, preset |-> 0]
      \/ s = [inject |-> FALSE, commit |-> TRUE, getRoots |-> TRUE,
              renderers |-> TRUE, rootsField |-> FALSE, preset |-> 1] }

returned(attached) ==
  [kind |-> "returned", attached |-> attached, hookPresent |-> hook.present]

threw == [kind |-> "threw", attached |-> FALSE, hookPresent |-> hook.present]

\* a new document: the page's state is gone and of the registered init
\* scripts k get through eval(bootstrap)
RECURSIVE loadDocument(_, _, _)
loadDocument(h, hs, k) ==
  IF k = 0 THEN [hook |-> h, hist |-> hs]
  ELSE loadDocument(initReactHook(h), histInstall(h, hs), k - 1)

\* a public operation is called
Call(o, v) ==
  /\ sess.pc = "idle"
  /\ sess.calls < MaxCalls
  /\ sess' = [sess EXCEPT !.pc = "ensure", !.op = o, !.verbose = v,
                          !.run = NoRun, !.calls = @ + 1,
                          !.outcome = [NoOutcome EXCEPT !.kind = "pending"]]
  /\ UNCHANGED <<hookVars, snapVars, walkVars, serVars, mapVars, listVars, nameVars, instVars>>

\* ensureBackendInjected rejects: attach turns that into a result, the
\* other operations let it through
ensureFails(s) ==
  [s EXCEPT !.pc = "idle",
            !.outcome = IF s.op = "attach" THEN returned(FALSE) ELSE threw]

\* if (this.#backendInjected) return
EnsureCached ==
  /\ sess.pc = "ensure"
  /\ sess.backendInjected
  /\ sess' = [sess EXCEPT !.pc = "body"]
  /\ UNCHANGED <<hookVars, snapVars, walkVars, serVars, mapVars, listVars, nameVars, instVars>>

\* await page.setBypassCSP(true)
SetBypassCSP(ok) ==
  /\ sess.pc = "ensure"
  /\ ~sess.backendInjected
  /\ sess' = IF ok THEN [sess EXCEPT !.pc = "addInit", !.run.csp = @ + 1]
             ELSE ensureFails([sess EXCEPT !.run.csp = @ + 1])
  /\ UNCHANGED <<hookVars, snapVars, walkVars, serVars, mapVars, listVars, nameVars, instVars>>

\* reading the backend source and await page.evaluateOnNewDocument(...)
AddInitScript(ok) ==
  /\ sess.pc = "addInit"
  /\ sess' = IF ok THEN [sess EXCEPT !.pc = "check1", !.run.init = @ + 1,
                                     !.initScripts = @ + 1]
             ELSE ensureFails([sess EXCEPT !.run.init = @ + 1])
  /\ UNCHANGED <<hookVars, snapVars, walkVars, serVars, mapVars, listVars, nameVars, instVars>>

\* hasHook = await page.evaluate(...); if (hasHook) { injected; return }
CheckHook1(ok) ==
  /\ sess.pc = "check1"
  /\ sess' = IF ~ok THEN ensureFails(sess)
             ELSE IF hook.present
                  THEN [sess EXCEPT !.pc = "body", !.backendInjected = TRUE]
                  ELSE [sess EXCEPT !.pc = "inject", !.run.absent = @ + 1]
  /\ UNCHANGED <<hookVars, snapVars, walkVars, serVars, mapVars, listVars, nameVars, instVars>>

\* the runtime injection: eval(bootstrap) in the current document
RuntimeInject(ok, evalOk) ==
  /\ sess.pc = "inject"
  /\ IF ok /\ evalOk
     THEN hook' = initReactHook(hook) /\ hist' = histInstall(hook, hist)
     ELSE UNCHANGED hookVars
  /\ sess' = IF ok THEN [sess EXCEPT !.pc = "check2", !.run.inject = @ + 1]
             ELSE ensureFails([sess EXCEPT !.run.inject = @ + 1])
  /\ UNCHANGED <<snapVars, walkVars, serVars, mapVars, listVars, nameVars, instVars>>

\* hasHook = await page.evaluate(...) after the runtime injection
CheckHook2(ok) ==
  /\ sess.pc = "check2"
  /\ sess' = IF ~ok THEN ensureFails(sess)
             ELSE IF hook.present
                  THEN [sess EXCEPT !.pc = "body", !.backendInjected = TRUE]
                  ELSE [sess EXCEPT !.pc = "reload", !.run.absent = @ + 1]
  /\ UNCHANGED <<hookVars, snapVars, walkVars, serVars, mapVars, listVars, nameVars, instVars>>

\* a reload that leads back into the installation instead of out of it
Reload_again(ok, k) ==
  /\ sess.pc = "reload"
  /\ k \in 0..sess.initScripts
  /\ IF ok
     THEN LET d == loadDocument(NoHook, InitHist, k)
          IN hook' = d.hook /\ hist' = d.hist
     ELSE UNCHANGED hookVars
  /\ sess' = IF ok THEN [sess EXCEPT !.pc = "check2", !.run.reload = @ + 1]
             ELSE ensureFails([sess EXCEPT !.run.reload = @ + 1])
  /\ UNCHANGED <<snapVars, walkVars, serVars, mapVars, listVars, nameVars, instVars>>

\* await page.reload({waitUntil: 'domcontentloaded'}); injected = true
Reload(ok, k) ==
  /\ sess.pc = "reload"
  /\ k \in 0..sess.initScripts
  /\ IF ok
     THEN LET d == loadDocument(NoHook, InitHist, k)
          IN hook' = d.hook /\ hist' = d.hist
     ELSE UNCHANGED hookVars
  /\ sess' = IF ok THEN [sess EXCEPT !.pc = "body", !.run.reload = @ + 1,
                                     !.backendInjected = TRUE]
             ELSE ensureFails([sess EXCEPT !.run.reload = @ + 1])
  /\ UNCHANGED <<snapVars, walkVars, serVars, mapVars, listVars, nameVars, instVars>>

\* attach after ensureBackendInjected: the renderers are read from the page,
\* an absent hook reading as no renderers
AttachBody(ok) ==
  /\ sess.pc = "body"
  /\ sess.op = "attach"
  /\ sess' = [sess EXCEPT !.pc = "idle", !.run.body = @ + 1,
                          !.outcome = IF ok THEN returned(TRUE) ELSE threw]
  /\ UNCHANGED <<hookVars, snapVars, walkVars, serVars, mapVars, listVars, nameVars, instVars>>

\* the page-side function of listRoots reaches a function that is not the
\* bootstrap's: the pre-existing hook's getFiberRoots, called per renderer
callsForeign(h) ==
  /\ h.present /\ h.hasRenderers
  /\ h.getRoots = "foreign"
  /\ MapSize(h.renderers) > 0

\* a listRoots whose page function runs the bootstrap once more
ListRootsBody_installs(ok, pageError) ==
  /\ sess.pc = "body"
  /\ sess.op = "listRoots"
  /\ pageError => callsForeign(hook)
  /\ sess' = [sess EXCEPT !.pc = "idle", !.run.body = @ + 1,
                          !.outcome = IF ok /\ ~pageError THEN returned(FALSE)
                                      ELSE threw]
  /\ hook' = initReactHook(hook)
  /\ hist' = histInstall(hook, hist)
  /\ UNCHANGED <<snapVars, walkVars, serVars, mapVars, listVars, nameVars, instVars>>

\* listRoots after ensureBackendInjected
ListRootsBody(ok, pageError) ==
  /\ sess.pc = "body"
  /\ sess.op = "listRoots"
  /\ pageError => callsForeign(hook)
  /\ sess' = [sess EXCEPT !.pc = "idle", !.run.body = @ + 1,
                          !.outcome = IF ok /\ ~pageError THEN returned(FALSE)
                                      ELSE threw]
  /\ UNCHANGED <<hookVars, snapVars, walkVars, serVars, mapVars, listVars, nameVars, instVars>>

\* takeSnapshot after ensureBackendInjected, as itself or as the first step
\* of getComponentMap, which goes on to buildAxMap(snapshot.root)
SnapshotBody(ok, sid) ==
  /\ sess.pc = "body"
  /\ sess.op \in {"takeSnapshot", "getComponentMap"}
  /\ LET snap == takeSnapshot(axNodes, sess.verbose, sid)
         map == sess.op = "getComponentMap"
     IN IF ~ok
        THEN /\ sess' = [sess EXCEPT !.pc = "idle", !.run.body = @ + 1,
                                     !.outcome = threw]
             /\ UNCHANGED snapshot
        ELSE /\ snapshot' = snap
             /\ sess' = [sess EXCEPT
                  !.run.body = @ + 1,
                  !.pc = IF map /\ ~snap.isNull /\ ~snap.root.isNull
                         THEN "mapEval" ELSE "idle",
                  !.outcome = IF ~map \/ snap.isNull THEN returned(FALSE)
                              ELSE IF snap.root.isNull THEN threw
                              ELSE @]
  /\ UNCHANGED <<axNodes, hookVars, walkVars, serVars, mapVars, listVars, nameVars, instVars>>

\* the page-side walk of getComponentMap: lines, or an error that comes
\* back as the string 'Error: ...'
MapEval(ok) ==
  /\ sess.pc = "mapEval"
  /\ sess' = [sess EXCEPT !.pc = "idle", !.run.mapEval = @ + 1,
                          !.outcome = IF ok THEN returned(FALSE) ELSE threw]
  /\ UNCHANGED <<hookVars, snapVars, walkVars, serVars, mapVars, listVars, nameVars, instVars>>

\* the browser goes to another document while no operation runs
Navigate(k) ==
  /\ sess.pc = "idle"
  /\ sess.navs < MaxNavigations
  /\ k \in 0..sess.initScripts
  /\ LET d == loadDocument(NoHook, InitHist, k)
     IN hook' = d.hook /\ hist' = d.hist
  /\ sess' = [sess EXCEPT !.navs = @ + 1]
  /\ UNCHANGED <<snapVars, walkVars, serVars, mapVars, listVars, nameVars, instVars>>

\* the accessibility source of the page gains a node with no children
AddLeaf(ignored) ==
  /\ Len(axNodes) < MaxAxNodes
  /\ AddAxNode(ignored, <<>>)

NextSession ==
  \/ \E o \in Operations, v \in BOOLEAN : Call(o, v)
  \/ EnsureCached
  \/ \E ok \in BOOLEAN : SetBypassCSP(ok)
  \/ \E ok \in BOOLEAN : AddInitScript(ok)
  \/ \E ok \in BOOLEAN : CheckHook1(ok)
  \/ \E ok \in BOOLEAN, evalOk \in BOOLEAN : RuntimeInject(ok, evalOk)
  \/ \E ok \in BOOLEAN : CheckHook2(ok)
  \/ \E ok \in BOOLEAN, k \in 0..MaxCalls : Reload(ok, k)
  \/ \E ok \in BOOLEAN : AttachBody(ok)
  \/ \E ok \in BOOLEAN, pageError \in BOOLEAN : ListRootsBody(ok, pageError)
  \/ \E ok \in BOOLEAN, sid \in SnapshotIds : SnapshotBody(ok, sid)
  \/ \E ok \in BOOLEAN : MapEval(ok)
  \/ \E k \in 0..MaxCalls : Navigate(k)
  \/ \E s \in SessionShapes : ForeignSetup(s)
  \/ \E ignored \in BOOLEAN : AddLeaf(ignored)

(***************************************************************************)
(* Claims about the hook.                                                  *)
(***************************************************************************)

\* C1: hook installation is idempotent: however often the bootstrap has run
\* in the page, with inject and onCommitFiberRoot events between the runs,
\* every renderer registered on the installed hook is in hook.renderers under
\* the id inject returned to it and every committed root is returned by
\* hook.getFiberRoots(id).
C1_NoRegistrationLost ==
  /\ \A e \in hist.registered :
       e[1] \in DOMAIN hook.renderers /\ hook.renderers[e[1]] = e[2]
  /\ \A c \in hist.committed : c[2] \in getFiberRoots(hook, c[1])

\* a registration and a commit were made, and the bootstrap ran again after them
C1_Witness ==
  /\ hist.installs >= 2
  /\ \E e \in hist.registered : e[3] < hist.installs
  /\ \E c \in hist.committed : c[3] < hist.installs

\* C2: right after installation over a hook installed by someone else, every
\* entry of the pre-existing renderers map is retained and every root the
\* pre-existing getFiberRoots(id) returned is still returned by
\* hook.getFiberRoots(id).
C2_PreExistingPreserved ==
  (hist.last = "install" /\ hist.installs = 1 /\ hist.pre.foreign) =>
    /\ \A id \in DOMAIN hist.pre.renderers :
         id \in DOMAIN hook.renderers /\ hook.renderers[id] = hist.pre.renderers[id]
    /\ \A id \in DOMAIN hist.pre.roots :
         hist.pre.roots[id] \subseteq getFiberRoots(hook, id)

\* positions of an event in the order of the last call
Occ(e) == { i \in DOMAIN hist.trace : hist.trace[i] = e }

\* what running the implementation below layer k leaves in the order
BaseRun(k) == IF k = 1 THEN Ev(0, "run") ELSE Ev(k - 1, "book")

LayerHasBase(k) ==
  k > 1 \/ (hist.last = "inject" /\ hook.fInject) \/ (hist.last = "commit" /\ hook.fCommit)

\* C3 as stated: in both wrappers each call does its own bookkeeping first and
\* only afterwards chains to the previous implementation, invoked exactly once.
C3_BookkeepingThenChain ==
  hist.last \in {"inject", "commit"} =>
    \A k \in 1..Len(hook.layers) :
      LayerHasBase(k) =>
        /\ Cardinality(Occ(Ev(k, "call"))) = 1
        /\ Cardinality(Occ(BaseRun(k))) = 1
        /\ \A i \in Occ(Ev(k, "book")), j \in Occ(Ev(k, "call")) : i < j

\* C3 (amended): the onCommitFiberRoot wrapper adds the root to the root set
\* and then chains to the previous implementation; the inject wrapper first
\* calls the previous implementation, which yields the id, and then records
\* the renderer; in both the previous implementation runs exactly once.
C3_ChainOrder ==
  hist.last \in {"inject", "commit"} =>
    \A k \in 1..Len(hook.layers) :
      /\ Cardinality(Occ(Ev(k, "book"))) = 1
      /\ LayerHasBase(k) =>
           /\ Cardinality(Occ(Ev(k, "call"))) = 1
           /\ Cardinality(Occ(BaseRun(k))) = 1
           /\ \A i \in Occ(Ev(k, "book")), j \in Occ(Ev(k, "call")) :
                IF hist.last = "commit" THEN i < j ELSE j < i
           /\ \A j \in Occ(Ev(k, "call")), b \in Occ(BaseRun(k)) : j < b

\* a commit went through two wrappers down to a foreign implementation
C3_Witness ==
  /\ hist.last = "commit"
  /\ Len(hook.layers) >= 2
  /\ hook.fCommit
  /\ Len(hist.trace) = 2 * Len(hook.layers) + 1

RootsCommitted(id) == { c[2] : c \in { d \in hist.committed : d[1] = id } }

\* C4 as stated: the root set read for a registration is the one of the most
\* recent commit; roots of earlier commits do not accumulate.
C4_RootsSuperseded ==
  \A id \in DOMAIN hist.lastCommit : getFiberRoots(hook, id) = {hist.lastCommit[id]}

\* C4 (amended): commits are merged: the root set read for a registration is
\* the set of all distinct roots committed for it since installation, together
\* with what the pre-existing _fiberRoots map held for it.
C4_RootsAccumulate ==
  Installed =>
    \A id \in hist.issued :
      getFiberRoots(hook, id) = MapGet(hist.pre.field, id, {}) \cup RootsCommitted(id)

\* two different roots were committed for one registration
C4_Witness ==
  \E id \in hist.issued :
    /\ Cardinality(RootsCommitted(id)) >= 2
    /\ hist.lastCommit[id] \in RootsCommitted(id)

(***************************************************************************)
(* Claims about the accessibility snapshot.                                *)
(***************************************************************************)
Materialized == snapshot.taken /\ ~snapshot.isNull /\ ~snapshot.root.isNull

\* the uids of a hierarchy, parent first, children left to right
RECURSIVE Preorder(_)
RECURSIVE PreorderOfList(_, _)
Preorder(n) == <<n.uid>> \o PreorderOfList(n.children, 1)

PreorderOfList(list, i) ==
  IF i > Len(list) THEN <<>> ELSE Preorder(list[i]) \o PreorderOfList(list, i + 1)

\* C8: within one snapshot every materialized node has the uid
\* {snapshotId}_{sequence}, the uids are pairwise distinct and the sequence
\* numbers follow the depth-first pre-order of the materialized hierarchy.
C8_UidsInPreorder ==
  Materialized =>
    LET po == Preorder(snapshot.root)
    IN /\ \A i \in DOMAIN po : po[i] = <<snapshot.snapshotId, i - 1>>
       /\ \A i, j \in DOMAIN po : i # j => po[i] # po[j]

\* the root has two children and the first of them has a child of its own
C8_Witness ==
  /\ Materialized
  /\ Len(snapshot.root.children) >= 2
  /\ Len(snapshot.root.children[1].children) >= 1
  /\ Len(Preorder(snapshot.root)) >= 4

RECURSIVE NodeIdsOf(_)
NodeIdsOf(n) ==
  IF n.isNull THEN {}
  ELSE {n.nodeId} \cup UNION { NodeIdsOf(n.children[i]) : i \in DOMAIN n.children }

AxIds == { axNodes[i].nodeId : i \in DOMAIN axNodes }

AxNode(id) == axNodes[CHOOSE i \in DOMAIN axNodes : axNodes[i].nodeId = id]

AxKept(verbose, id) == id \in AxIds /\ (verbose \/ ~AxNode(id).ignored)

AxChild(p, c) == \E k \in DOMAIN AxNode(p).childIds : AxNode(p).childIds[k] = c

\* the nodes reachable from those of S through childIds along kept nodes
RECURSIVE AxReachFrom(_, _)
AxReachFrom(verbose, S) ==
  LET T == S \cup { c \in AxIds : AxKept(verbose, c) /\ \E p \in S : AxChild(p, c) }
  IN IF T = S THEN S ELSE AxReachFrom(verbose, T)

AxReach(verbose) ==
  IF AxKept(verbose, axNodes[1].nodeId) THEN AxReachFrom(verbose, {axNodes[1].nodeId}) ELSE {}

\* C9: with verbose = false no ignored node is in the hierarchy and a
\* non-ignored node is in it exactly when a path of non-ignored nodes leads to
\* it from the first node of the list; with verbose = true every node
\* reachable from the first node is in it.
C9_PrunedHierarchy ==
  (snapshot.taken /\ ~snapshot.isNull) =>
    /\ NodeIdsOf(snapshot.root) = AxReach(snapshot.verbose)
    /\ ~snapshot.verbose => \A id \in NodeIdsOf(snapshot.root) : ~AxNode(id).ignored

\* a non-verbose snapshot that left out a non-ignored node below an ignored one
C9_Witness ==
  /\ Materialized
  /\ ~snapshot.verbose
  /\ \E id \in AxReach(TRUE) :
       /\ ~AxNode(id).ignored
       /\ id \notin NodeIdsOf(snapshot.root)

(***************************************************************************)
(* Claims about the fiber walk.                                            *)
(***************************************************************************)
NoAuthoredFiber == \A i \in DOMAIN fibers.tag : ~isAuthored(fibers, i)

\* the start fiber has more than maxSteps ancestors
ChainExceedsBudget == Len(fibers.tag) - 1 > maxSteps \/ fibers.back # 0

\* C10: started on a fiber whose parent chain is longer than maxSteps and has
\* no authored fiber, the lookup reports 'not found' after exactly maxSteps
\* parent traversals; it never reports a non-authored fiber as the component.
C10_BudgetExhaustedNotFound ==
  walkResult.done =>
    /\ (NoAuthoredFiber /\ ChainExceedsBudget) =>
         /\ ~walkResult.success
         /\ walkResult.error = "No React component found in fiber tree"
         /\ walkResult.followed = maxSteps
    /\ walkResult.success => isAuthored(fibers, walkResult.fiber)

\* the i-th fiber of the parent chain of fiber 1, the start counting as the
\* first; 0 when the chain has ended before
ChainAt(i) ==
  IF i <= Len(fibers.tag) THEN i
  ELSE IF fibers.back = 0 THEN 0
  ELSE ((i - 1) % Len(fibers.tag)) + 1

FirstAuthoredAt(i) ==
  /\ ChainAt(i) # 0
  /\ fibers.tag[ChainAt(i)] \in AuthoredTags
  /\ \A j \in 1..(i - 1) : fibers.tag[ChainAt(j)] \notin AuthoredTags

\* C11: when an authored fiber (tag 0, 1, 11 or 15) is among the first
\* maxSteps fibers of the parent chain, the start counting as the first, the
\* lookup returns the nearest one: no fiber closer to the start is authored.
C11_NearestAuthored ==
  walkResult.done =>
    \A i \in 1..maxSteps :
      FirstAuthoredAt(i) =>
        /\ walkResult.success
        /\ walkResult.fiber = ChainAt(i)
        /\ walkResult.followed = i - 1

C11_Witness ==
  /\ walkResult.done
  /\ FirstAuthoredAt(maxSteps)
  /\ walkResult.success
  /\ walkResult.fiber = maxSteps
  /\ \E k \in DOMAIN fibers.tag : k > maxSteps /\ fibers.tag[k] \in AuthoredTags

IsAuthoredFiber(f) == fibers.tag[f] \in AuthoredTags

\* the proper ancestors of the fiber the lookup found, innermost first; on a
\* cyclic graph as many laps as maxOwners could need
AncestorsOf(f) ==
  LET n == IF fibers.back = 0 THEN Len(fibers.tag) - f
           ELSE Len(fibers.tag) * maxOwners
  IN [p \in 1..n |-> ChainAt(f + p)]

FirstOf(q, n) == SubSeq(q, 1, IF Len(q) < n THEN Len(q) ELSE n)

\* C12: the owner chain of a component is exactly the sequence of its
\* authored proper ancestors, the component itself and non-authored ancestors
\* left out, innermost first, cut to the first maxOwners; a component with
\* three authored ancestors yields exactly three entries.
C12_OwnerChain ==
  (walkResult.done /\ walkResult.success) =>
    walkResult.owners =
      FirstOf(SelectSeq(AncestorsOf(walkResult.fiber), IsAuthoredFiber), maxOwners)

C12_Witness ==
  /\ walkResult.done /\ walkResult.success
  /\ fibers.back = 0
  /\ IsAuthoredFiber(walkResult.fiber)
  /\ Len(walkResult.owners) = 3
  /\ \E h \in DOMAIN fibers.tag :
       /\ ~IsAuthoredFiber(h)
       /\ walkResult.owners[1] < h /\ h < walkResult.owners[3]

(***************************************************************************)
(* Claims about safeSerialize.                                             *)
(***************************************************************************)

\* every value of the output with the path of entry positions that leads to
\* it; paths in lexicographic order, a prefix first, are the order of the
\* calls
RECURSIVE OutAt(_, _)
OutAt(n, path) ==
  {<<path, n>>} \cup
    UNION { OutAt(n.items[i].val, Append(path, n.items[i].key)) : i \in DOMAIN n.items }

Occurrences == OutAt(serResult.out, <<>>)

\* the values of the output that stand for an object of the heap
ObjectOccurrences == { x \in Occurrences : x[2].t \in {"object", "array", "string"} }

Precedes(p, q) ==
  /\ p # q
  /\ \E k \in 1..(Len(p) + 1) :
       /\ \A j \in 1..(k - 1) : j <= Len(q) /\ p[j] = q[j]
       /\ \/ k = Len(p) + 1
          \/ k <= Len(q) /\ p[k] < q[k]

FirstVisit(x) ==
  \A y \in ObjectOccurrences : y[2].src = x[2].src => ~Precedes(y[1], x[1])

\* the object whose entry the value at a path was
ParentOf(p) ==
  (CHOOSE y \in Occurrences : y[1] = SubSeq(p, 1, Len(p) - 1))[2].src

TotalEntries ==
  LET RECURSIVE sum(_)
      sum(i) == IF i = 0 THEN 0 ELSE sum(i - 1) + Len(heap[i].entries)
  IN sum(Len(heap))

SelfReferences(id) ==
  { i \in DOMAIN heap[id].entries : heap[id].entries[i].val = Ref(id) }

\* C13: safeSerialize terminates without throwing on every finite object
\* graph, cyclic ones included, for every maxDepth: it is called at most once
\* per entry of the graph and expands no object twice; an object that refers
\* to itself serializes to an object whose self-reference is "[Circular]".
C13_CycleSafe ==
  serResult.done =>
    /\ serResult.calls <= 1 + TotalEntries
    /\ \A x, y \in Occurrences :
         (x[2].t \in {"object", "array"} /\ y[2].t \in {"object", "array"}
            /\ x[2].src = y[2].src) => x = y
    /\ \A x \in Occurrences :
         x[2].t \in {"object", "array"} =>
           \A i \in DOMAIN x[2].items :
             x[2].items[i].key \in SelfReferences(x[2].src) =>
               x[2].items[i].val = Marker("[Circular]", x[2].src, x[2].level + 1)

C13_Witness ==
  /\ serResult.done
  /\ serResult.maxDepth = 3
  /\ serResult.top = Ref(1)
  /\ heap[1].kind = "object"
  /\ SelfReferences(1) # {}
  /\ serResult.out.t = "object"
  /\ \E i \in DOMAIN serResult.out.items :
       serResult.out.items[i].val = Marker("[Circular]", 1, 1)

\* C14: safeSerialize checks each value in the order primitive pass-through,
\* already visited, depth limit, type dispatch: a primitive passes at any
\* depth, an object visited before yields "[Circular]" also when it is met
\* again exactly at the depth limit, and an object met for the first time at
\* the depth limit yields "[Max Depth]" whatever its type.
C14_CheckOrder ==
  serResult.done =>
    /\ \A x \in Occurrences :
         x[2].t \in {"prim", "null"} =>
           /\ x[2].s = ""
           /\ x[1] # <<>> =>
                heap[ParentOf(x[1])].entries[x[1][Len(x[1])]].val = [t |-> x[2].t, n |-> x[2].src]
    /\ \A x \in ObjectOccurrences :
         IF ~FirstVisit(x) THEN x[2] = Marker("[Circular]", x[2].src, x[2].level)
         ELSE IF x[2].level >= serResult.maxDepth
              THEN x[2] = Marker("[Max Depth]", x[2].src, x[2].level)
              ELSE x[2].t \in {"object", "array"} \/ x[2].s \in {"[React Element]", "[DOM Node]"}

C14_Witness ==
  /\ serResult.done
  /\ serResult.maxDepth \in 1..MaxDepth
  /\ \E x \in ObjectOccurrences :
       /\ x[2].level = serResult.maxDepth
       /\ ~FirstVisit(x)
       /\ x[2].s = "[Circular]"

CopiedKeys(x) == { x[2].items[i].key : i \in DOMAIN x[2].items }

InOrder(x) ==
  \A i, j \in DOMAIN x[2].items : i < j => x[2].items[i].key < x[2].items[j].key

C17_FunctionsReplaced ==
  serResult.done =>
    \A x \in Occurrences : x[2].t # "function"

(***************************************************************************)
(* Claims about the component map.                                         *)
(***************************************************************************)

\* the root.current of all roots, registrations in order, each one's roots
\* in order
RECURSIVE Flatten(_, _)
Flatten(rootSets, r) ==
  IF r > Len(rootSets) THEN <<>> ELSE rootSets[r] \o Flatten(rootSets, r + 1)

RootList == Flatten(tree.roots, 1)

ChildrenOf(f) == siblingChain(tree.fibers, tree.fibers[f].child)

\* every way to reach a fiber: the position of a root, then the position of
\* a child among its parent's children, and so on
RECURSIVE PathsFrom(_, _)
PathsFrom(f, path) ==
  {<<path, f>>} \cup
    UNION { PathsFrom(ChildrenOf(f)[i], Append(path, i)) : i \in DOMAIN ChildrenOf(f) }

AllPaths ==
  UNION { PathsFrom(RootList[i], <<i>>) : i \in { k \in DOMAIN RootList : RootList[k] # 0 } }

ReachableFibers == { x[2] : x \in AllPaths }

PathsTo(f) == { x[1] : x \in { y \in AllPaths : y[2] = f } }

\* the path by which a depth-first pre-order walk reaches f first
FirstPath(f) ==
  CHOOSE p \in PathsTo(f) : \A q \in PathsTo(f) : q = p \/ Precedes(p, q)

IsComponent(f) == tree.fibers[f].tag \in AuthoredTags

ComponentLines == { i \in DOMAIN mapResult.lines : mapResult.lines[i].kind = "component" }

\* C18: getComponentMap correlates the two trees: for each host fiber it
\* visits whose DOM node has an entry in the accessibility index, the output
\* has a host line for that fiber showing the entry's role and name, nested
\* under the line of the component that renders it.
C18_HostLinesCorrelated ==
  mapResult.done =>
    \A f \in ReachableFibers :
      (tree.fibers[f].tag = HostComponent /\ tree.fibers[f].ax) =>
        \E i \in DOMAIN mapResult.lines :
          mapResult.lines[i].kind = "host" /\ mapResult.lines[i].fiber = f

\* C19: in one getComponentMap call each fiber contributes at most once: an
\* authored fiber reachable from the roots by more than one child/sibling
\* path, or from more than one root, produces exactly one line, and the
\* children of a fiber are gone through once.
C19_EachFiberOnce ==
  mapResult.done =>
    /\ \A i, j \in ComponentLines :
         mapResult.lines[i].fiber = mapResult.lines[j].fiber => i = j
    /\ \A f \in ReachableFibers :
         IsComponent(f) => \E i \in ComponentLines : mapResult.lines[i].fiber = f
    /\ \A i, j \in DOMAIN mapResult.expanded :
         mapResult.expanded[i] = mapResult.expanded[j] => i = j
    /\ { mapResult.expanded[i] : i \in DOMAIN mapResult.expanded } = ReachableFibers

C19_Witness ==
  /\ mapResult.done
  /\ \E f \in ReachableFibers :
       /\ IsComponent(f)
       /\ Cardinality(PathsTo(f)) > 1
       /\ ChildrenOf(f) # <<>>
       /\ \E i \in ComponentLines : mapResult.lines[i].fiber = f

RECURSIVE FibersAlong(_, _, _)
FibersAlong(f, path, k) ==
  IF k > Len(path) THEN <<>>
  ELSE <<f>> \o FibersAlong(ChildrenOf(f)[path[k]], path, k + 1)

AuthoredAncestors(f) ==
  LET p == FirstPath(f)
      above == FibersAlong(RootList[p[1]], p, 2)
  IN Cardinality({ k \in DOMAIN above : IsComponent(above[k]) })

\* line j comes after line i under the component that line i is under
LaterUnderSameParent(i, j) ==
  /\ j > i
  /\ mapResult.lines[j].depth = mapResult.lines[i].depth
  /\ \A k \in ComponentLines :
       (i < k /\ k < j) => mapResult.lines[k].depth >= mapResult.lines[i].depth

\* C21: the prefix of every component line encodes its position: it has one
\* place per authored ancestor of the fiber, and for a line under a parent
\* component its connector is the last-child one exactly when no later line
\* is emitted under the same parent component, the non-last one otherwise.
C21_ConnectorEncodesPosition ==
  mapResult.done =>
    \A i \in ComponentLines :
      LET l == mapResult.lines[i]
      IN /\ Len(l.prefix) = AuthoredAncestors(l.fiber)
         /\ l.prefix # <<>> =>
              /\ l.prefix[Len(l.prefix)] \in {"L- ", "|- "}
              /\ l.prefix[Len(l.prefix)] = "L- " <=>
                   ~\E j \in ComponentLines : LaterUnderSameParent(i, j)

(***************************************************************************)
(* Claims about the listing of roots.                                      *)
(***************************************************************************)

\* the number a run of decimal digits stands for
RECURSIVE NumberOf(_)
NumberOf(chars) ==
  IF chars = <<>> THEN 0
  ELSE 10 * NumberOf(SubSeq(chars, 1, Len(chars) - 1))
         + (CHOOSE d \in 0..9 : DigitChars[d + 1] = chars[Len(chars)])

\* an id read back: the numbers before and after its colon
ReadId(id) ==
  LET colon == CHOOSE k \in DOMAIN id : id[k] = ":"
  IN <<NumberOf(SubSeq(id, 1, colon - 1)), NumberOf(SubSeq(id, colon + 1, Len(id)))>>

\* the roots of the page: registration and place in its root set
PageRoots ==
  UNION { { <<r, pos>> : pos \in DOMAIN tree.roots[r] } : r \in DOMAIN tree.roots }

Successors(S) ==
  UNION { { tree.fibers[f].child, tree.fibers[f].sibling } \ {0} : f \in S }

RECURSIVE ReachFrom(_)
ReachFrom(S) ==
  IF Successors(S) \subseteq S THEN S ELSE ReachFrom(S \cup Successors(S))

\* the child and sibling pointers of fibers in R that lead to f
InPointers(f, R) ==
  Cardinality({ p \in R : tree.fibers[p].child = f })
    + Cardinality({ p \in R : tree.fibers[p].sibling = f })

\* the fibers below current form a tree: no pointer leads to current and
\* exactly one leads to each other fiber
IsTreeFrom(current) ==
  /\ current # 0
  /\ \A f \in ReachFrom({current}) :
       InPointers(f, ReachFrom({current})) = IF f = current THEN 0 ELSE 1

CurrentOf(entry) == tree.roots[entry.root[1]][entry.root[2]]

\* C25: the node count of every listed root is at most 2000 and its counting
\* loop ends for every fiber graph, one whose child or sibling pointers form
\* a cycle included; for a tree of fewer than 2000 fibers the count is the
\* number of fibers reachable from root.current by child and sibling
\* pointers.
C25_CountCappedAndEnds ==
  \A k \in DOMAIN listing :
    \A i \in DOMAIN listing[k] :
      LET entry == listing[k][i]
      IN /\ entry.count.ended
         /\ entry.count.nodes <= limit
         /\ (IsTreeFrom(CurrentOf(entry))
               /\ Cardinality(ReachFrom({CurrentOf(entry)})) < limit)
              => entry.count.nodes = Cardinality(ReachFrom({CurrentOf(entry)}))

C25_Witness ==
  /\ listing # <<>>
  /\ \E i \in DOMAIN listing[1] :
       LET current == CurrentOf(listing[1][i])
       IN /\ current # 0
          /\ \E f \in ReachFrom({current}) : f \in ReachFrom(Successors({f}))
          /\ listing[1][i].count.nodes = limit
  /\ \E j \in DOMAIN listing[1] :
       /\ IsTreeFrom(CurrentOf(listing[1][j]))
       /\ listing[1][j].count.nodes = Cardinality(ReachFrom({CurrentOf(listing[1][j])}))

(***************************************************************************)
(* Claims about the session.                                               *)
(***************************************************************************)

\* C5: whenever attach() reports attached: true the hook object is present
\* in the current page, on every path through ensureBackendInjected, the
\* path that reloads the page included.
C5_AttachedImpliesHook ==
  (sess.op = "attach" /\ sess.outcome.kind = "returned" /\ sess.outcome.attached)
    => sess.outcome.hookPresent

\* C6: in one execution of ensureBackendInjected the page is reloaded at
\* most once, and only when setBypassCSP, the init script registration and
\* the runtime injection have each run once and both hook checks answered
\* false; no step of the installation or of the operation runs twice.
C6_ReloadOnceAfterBothChecks ==
  [][ /\ sess'.run.reload > sess.run.reload
        => sess.run = [NoRun EXCEPT !.csp = 1, !.init = 1, !.inject = 1, !.absent = 2]
      /\ \A c \in {"csp", "init", "inject", "reload", "body", "mapEval"} :
           sess'.run[c] <= 1
      /\ sess'.run.absent <= 2 ]_vars

C6_Witness ==
  /\ sess.run.reload = 1
  /\ sess.run.absent = 2
  /\ sess.outcome.kind = "returned"

\* C7: no public operation of the session aborts its caller: attach,
\* listRoots, takeSnapshot and getComponentMap end in a result value for
\* every outcome, never in an exception.
C7_NeverThrows ==
  sess.op \in Operations => sess.outcome.kind # "threw"

Next == NextHook

(***************************************************************************)
(* Claims about what the operations of the session do to the page.         *)
(***************************************************************************)

ReadOperations == {"listRoots", "takeSnapshot", "getComponentMap"}

\* a step of the operation in progress, as opposed to a step of the page
EngineStep == sess.pc # "idle" /\ sess' # sess

\* the document, the hook with its registration map and root sets, and the
\* node list are what they were
RuntimeUntouched == hookVars' = hookVars /\ axNodes' = axNodes

\* C23: takeSnapshot, listRoots and getComponentMap perform no writes on the
\* inspected runtime: no step of such a call, whether the call completes or
\* fails, changes the loaded document, the hook's registration map, its root
\* sets or the node graph.
C23_ReadsNeverWrite ==
  [][(EngineStep /\ sess.op \in ReadOperations) => RuntimeUntouched]_vars

\* C23 as amended: the only steps of a read operation that write are the
\* runtime injection and the reload of ensureBackendInjected, which run only
\* on a session whose installation has not completed; every other step, and
\* every step of a call made after installation completed, leaves the
\* runtime as it was.
C23_ReadsWriteOnlyWhileInstalling ==
  [][(EngineStep /\ sess.op \in ReadOperations) =>
       /\ sess.pc \in {"inject", "reload"} => ~sess.backendInjected
       /\ sess.pc \notin {"inject", "reload"} => RuntimeUntouched]_vars

C23_Witness ==
  /\ sess.op \in ReadOperations
  /\ sess.pc = "idle"
  /\ sess.outcome.kind = "returned"
  /\ sess.run.inject = 1
  /\ sess.run.reload = 1
  /\ sess.run.body = 1
  /\ hook.present

(***************************************************************************)
(* Claims about display names.                                             *)
(***************************************************************************)

\* the documented order of derivation
NamePolicy(fiber) ==
  IF fiber["type.displayName"] # "" THEN fiber["type.displayName"]
  ELSE IF fiber.tag \in {FunctionComponent, ClassComponent}
  THEN Or(fiber["type.name"], Or(fiber["elementType.name"], "Anonymous"))
  ELSE IF fiber.tag = ForwardRef THEN Or(fiber["type.render.name"], "ForwardRef")
  ELSE IF fiber.tag = MemoComponent THEN Or(fiber["type.type.name"], "Memo")
  ELSE "Unknown"

\* C24: at every place that derives it the display name of a fiber is, in
\* this order: the displayName of its type; for function and class tags the
\* type's name, else the element type's name, else 'Anonymous'; for
\* forward-ref tags the name of the wrapped render function, else
\* 'ForwardRef'; for memo tags the name of the wrapped inner type, else
\* 'Memo'; 'Unknown' for every other tag; and it is never empty.
C24_NamePolicyEverywhere ==
  naming.done =>
    \A place \in NamePlaces :
      /\ naming.names[place] = NamePolicy(naming.fiber)
      /\ naming.names[place] # ""

(***************************************************************************)
(* Claims about registration ids.                                          *)
(***************************************************************************)

\* C29: registration ids are unique: whatever hook was there before the
\* bootstrap ran (none, its own, a foreign one whose renderers map is not
\* empty), an id that hook.inject returns to a new framework instance was not
\* a key of the registration map before, so no registration is overwritten.
C29_UniqueRegistrationIds ==
  /\ \A e \in hist.registered : e[1] \notin DOMAIN hist.pre.renderers
  /\ \A e1, e2 \in hist.registered : e1[1] = e2[1] => e1 = e2

(***************************************************************************)
(* Claims about the end of the owners loop.                                *)
(***************************************************************************)

\* C28: the owners loop comes to an end for every fiber graph, return
\* pointers that form a cycle included, whether the cycle holds an authored
\* fiber or not: it follows a bounded number of return pointers.
C28_OwnersWalkEnds ==
  walkResult.done => ~walkResult.hangs

(***************************************************************************)
(* Claims about the snapshot of lists of any shape.                        *)
(***************************************************************************)

\* C27: takeSnapshot returns null exactly when the node list is absent or
\* empty, and the root of a snapshot that is not null is a materialized
\* node, never null, whether verbose is true or false; so buildAxMap in
\* getComponentMap always has a node to index.
C27_RootMaterialized ==
  (snapshot.taken /\ ~snapshot.unbounded) =>
    /\ snapshot.isNull <=> axNodes = <<>>
    /\ ~snapshot.isNull => ~snapshot.root.isNull

\* C26: takeSnapshot comes to an end for every flat node list, a list whose
\* childIds form a cycle and a list that names a node as the child of
\* several parents included: processNode never recurses without bound.
C26_SnapshotRecursionBounded ==
  snapshot.taken => ~snapshot.unbounded

(***************************************************************************)
(* Claims about overlapping and repeated installation.                     *)
(***************************************************************************)

\* C30: for one session each installation step is performed at most once in
\* total: the init script is registered once, the runtime injection runs
\* once and the page is reloaded once at most, also when two operations that
\* need installation overlap and when an attempt that failed is repeated.
C30_InstallationStepsOnce ==
  /\ inst.initScripts <= 1
  /\ inst.injections <= 1
  /\ inst.reloads <= 1

(***************************************************************************)
(* The specifications.                                                     *)
(***************************************************************************)
Spec == Init /\ [][Next]_vars

SpecSnapshot == Init /\ [][NextSnapshot]_vars

SpecWalk == Init /\ [][NextWalk]_vars

SpecSession == Init /\ [][NextSession]_vars

SpecSerialize == Init /\ [][NextSerialize]_vars

SpecMap == Init /\ [][NextMap]_vars

SpecRoots == Init /\ [][NextRoots]_vars

SpecName == Init /\ [][NextName]_vars

SpecSnapshotAny == Init /\ [][NextSnapshotAny]_vars

SpecOverlap == Init /\ [][NextOverlap]_vars

====
